---- MODULE Spec2Model ----
(***************************************************************************)
(* A model of simple-db: the lock manager, the transaction manager over    *)
(* the vector KV store (append log + HNSW node table), recovery by log     *)
(* replay, and the single-node CasPaxos register.                          *)
(*                                                                         *)
(* Several specifications share the variables below; each one moves only   *)
(* its own component and leaves the others at their initial values:        *)
(*   SpecLock     the lock manager called directly by transactions         *)
(*   SpecTxn      client connections over the transaction manager          *)
(*   SpecRecover  replay_log applied to a log file found on disk           *)
(*   SpecCas      sequential use of a CasPaxos instance                    *)
(*   SpecCasConc  threads calling cas on one CasPaxos instance at once     *)
(*   SpecProposer get_next_ballot / update_ballot on one ProposerState     *)
(*   SpecAcceptor PREPARE / COMMIT messages reaching one AcceptorState     *)
(*   SpecLog      an AppendLog used on its own                             *)
(*   SpecLockFair, SpecLockOrdered  the lock manager under a fair scheduler*)
(*   SpecHnsw     an HNSW index used on its own                            *)
(*   SpecTorn     read_all on a log file that ends with a partial record   *)
(*   SpecTm       threads calling the transaction manager directly         *)
(*   SpecDisconnect  connections that close with a transaction open        *)
(*   SpecTmConc   the transaction manager's calls step by step, interleaved*)
(***************************************************************************)
EXTENDS Integers, Sequences, FiniteSets, TLC

\* ------------------------------------------------------------------------
\* Bounds of the model
\* ------------------------------------------------------------------------
NumLockTxns == 3      \* transactions driving the lock manager in SpecLock
MaxTxns     == 3      \* transactions begun in one behaviour of SpecTxn
Dim         == 1      \* dimension_ the HNSW index is built with
MaxLogLen   == 3      \* records of a log file found on disk in SpecRecover
MaxEpoch    == 4      \* ballots a proposer hands out in SpecCas
MaxReplicas == 1      \* configured remote replicas in SpecCas
EpochBits   == 3      \* bits of the proposer's epoch counter (64 in the code)
NumCasThreads == 2    \* threads calling cas at the same time in SpecCasConc
MaxMsgEpoch == 2      \* largest epoch of a message sent to the acceptor in SpecAcceptor
MaxAppends  == 2      \* records appended in one behaviour of SpecLog
MaxLevel    == 1      \* largest level get_random_level draws in SpecHnsw
MaxComplete == 2      \* whole records before the torn one in a log file of SpecTorn
MaxTmTxns   == 2      \* transactions begun in SpecTm

Keys     == {"a", "b"}
LockTxns == 1..NumLockTxns
TxnIds   == 1..MaxTxns
AllTxnIds == LockTxns \cup TxnIds
Modes    == {"SHARED", "EXCLUSIVE"}

\* LockQueue() : holder_exclusive(0) -- 0 is "no exclusive holder"
NoHolder == 0

VARIABLES
    \* LockManager
    locks,          \* locks_ : key -> LockQueue (created on first use)
    txn_locks,      \* txn_locks_ : txn id -> set of keys
    lk_wait,        \* SpecLock: the key each calling transaction is blocked on ("" if none)
    \* TransactionManager
    next_txn_id,    \* next_txn_id_
    transactions,   \* transactions_ : txn id -> Transaction (state, write_set)
    \* KVStore and HNSW (vector mode)
    index_,         \* KVStore::index_ : key -> log offset
    nodes_,         \* HNSW::nodes_ : key -> (vector, file_offset)
    deleted_keys_,  \* HNSW::deleted_keys_
    \* AppendLog
    file,           \* the records in the log file on disk
    fail,           \* failbit of AppendLog::file_ (set by a read that hits end of file)
    current_offset, \* AppendLog::current_offset_
    \* Connections (one thread each)
    conn,           \* client -> (in_transaction_, current_txn_id_)
    blocked,        \* client -> the TransactionManager call waiting in acquire_lock
    \* History kept for stating the claims (not program state)
    last,           \* the operation that completed last, with what it returned
    committed,      \* key -> what the store answered for it after the last commit on it
    ghost,          \* per transaction: what it found and did, see GhostInit
    begun,          \* how many transactions have been begun so far
    \* CasPaxos (one node: its proposer, its acceptor, its configuration)
    replicas_,      \* CasPaxos::replicas_ (how many remote replicas are configured)
    current_epoch_, \* ProposerState::current_epoch_
    highest_ballot_,\* AcceptorState::highest_ballot_
    values_,        \* AcceptorState::values_ : key -> VersionedValue
    cas_last,       \* history: the cas call that returned last
    cas_prev,       \* history: the cas call that returned before it
    cas_threads,    \* SpecCasConc: per thread, where it is in cas and its locals
    cas_won,        \* history: key -> ballot and value of the last cas that returned true
    cas_before,     \* history: the acceptor's state when the last cas call began
    proposer_log,   \* SpecProposer: the last call on the proposer and what came before it
    acc_last,       \* SpecAcceptor: the last message handled and the answer to it
    log_hist,       \* SpecLog: the last call on the log, what it returned, what was appended
    hnsw,           \* SpecHnsw: an HNSW index (nodes_, deleted_keys_, entry_point_)
    hnsw_hist,      \* SpecHnsw: the last call on the index and what was inserted and removed
    tm_threads,     \* SpecTmConc: per connection thread, where it is inside a call
    tm_mutex        \* SpecTmConc: the thread that holds TransactionManager::mutex_ ("" if none)

lockVars == <<locks, txn_locks>>
storeVars == <<next_txn_id, transactions, index_, nodes_, deleted_keys_, conn, blocked, last,
               committed, ghost, begun>>
txnVars == <<next_txn_id, transactions, index_, nodes_, deleted_keys_, file, fail,
             current_offset, conn, blocked, last, committed, ghost, begun>>
unitVars == <<proposer_log, acc_last, log_hist, hnsw, hnsw_hist, tm_threads, tm_mutex>>
casCoreVars == <<replicas_, current_epoch_, highest_ballot_, values_, cas_last, cas_prev,
                 cas_threads, cas_won, cas_before>>
auxVars == <<cas_threads, cas_won, cas_before, unitVars>>
casVars == <<replicas_, current_epoch_, highest_ballot_, values_, cas_last, cas_prev, auxVars>>
vars == <<locks, txn_locks, lk_wait, txnVars, casVars>>

\* ------------------------------------------------------------------------
\* LockManager (src/src/transaction/lock_manager.cpp)
\* ------------------------------------------------------------------------
EmptyQueue == [requests |-> <<>>, holders_shared |-> {}, holder_exclusive |-> NoHolder]

\* locks_[key] : the queue of a key, default-constructed when absent
QueueOf(L, key) == IF key \in DOMAIN L THEN L[key] ELSE EmptyQueue

\* txn_locks_[txn_id].  The map is kept total: an absent entry is the empty
\* set.  No code path tells the two apart (release_all_locks returns early on an
\* absent entry and loops over nothing on an empty one).
KeysOf(TL, txn_id) == TL[txn_id]

\* m[k] = v on an unordered_map: insert or overwrite
MapPut(m, k, v) == [x \in DOMAIN m \cup {k} |-> IF x = k THEN v ELSE m[x]]

\* m.erase(k)
MapErase(m, k) == [x \in DOMAIN m \ {k} |-> m[x]]

\* operator< of the std::string keys the model uses
KeyRank(key) == IF key = "a" THEN 1 ELSE IF key = "b" THEN 2 ELSE 3

can_grant_lock_SharedAlways(queue, mode) ==
    IF mode = "SHARED" THEN TRUE
    ELSE queue.holder_exclusive = NoHolder /\ queue.holders_shared = {}

can_grant_lock(queue, mode) ==
    IF mode = "SHARED"
      THEN queue.holder_exclusive = NoHolder
      ELSE queue.holder_exclusive = NoHolder /\ queue.holders_shared = {}

\* the for loop of grant_locks from request i on
RECURSIVE grant_scan(_, _)
grant_scan(queue, i) ==
    IF i > Len(queue.requests) THEN queue
    ELSE LET request == queue.requests[i] IN
      IF request.granted THEN grant_scan(queue, i + 1)
      ELSE IF request.mode = "EXCLUSIVE"
        THEN IF queue.holder_exclusive = NoHolder /\ queue.holders_shared = {}
               THEN [queue EXCEPT !.holder_exclusive = request.txn_id,
                                  !.requests[i].granted = TRUE]      \* break
               ELSE grant_scan(queue, i + 1)
        ELSE IF queue.holder_exclusive = NoHolder
               THEN grant_scan([queue EXCEPT !.holders_shared = @ \cup {request.txn_id},
                                             !.requests[i].granted = TRUE], i + 1)
               ELSE grant_scan(queue, i + 1)

grant_locks(queue) == grant_scan(queue, 1)

\* acquire_lock up to the wait: the immediate grant, or the request queued
acquire_lock_enter(L, TL, txn_id, key, mode) ==
    LET queue == QueueOf(L, key) IN
    IF can_grant_lock(queue, mode)
      THEN [granted   |-> TRUE,
            locks     |-> MapPut(L, key,
                            IF mode = "SHARED"
                              THEN [queue EXCEPT !.holders_shared = @ \cup {txn_id}]
                              ELSE [queue EXCEPT !.holder_exclusive = txn_id]),
            txn_locks |-> MapPut(TL, txn_id, KeysOf(TL, txn_id) \cup {key})]
      ELSE [granted   |-> FALSE,
            locks     |-> MapPut(L, key,
                            [queue EXCEPT !.requests =
                               Append(@, [txn_id |-> txn_id, mode |-> mode, granted |-> FALSE])]),
            txn_locks |-> TL]

\* the predicate of queue.cv.wait: the first request of txn_id is granted
wait_over(L, txn_id, key) ==
    LET reqs == QueueOf(L, key).requests
        mine == {i \in 1..Len(reqs) : reqs[i].txn_id = txn_id}
    IN  mine # {} /\ reqs[CHOOSE i \in mine : \A j \in mine : i <= j].granted

\* acquire_lock after the wait: erase the requests of txn_id, record the key
acquire_lock_leave(L, TL, txn_id, key) ==
    LET queue == QueueOf(L, key) IN
    [locks     |-> MapPut(L, key,
                     [queue EXCEPT !.requests = SelectSeq(@, LAMBDA r : r.txn_id # txn_id)]),
     txn_locks |-> MapPut(TL, txn_id, KeysOf(TL, txn_id) \cup {key})]

\* one pass of the loop body of release_lock / release_all_locks on a queue
release_in_queue(queue, txn_id) ==
    grant_locks([queue EXCEPT
        !.holders_shared = @ \ {txn_id},
        !.holder_exclusive = IF @ = txn_id THEN NoHolder ELSE @])

release_lock(L, TL, txn_id, key) ==
    IF key \notin DOMAIN L
      THEN [ret |-> FALSE, locks |-> L, txn_locks |-> TL]
      ELSE [ret       |-> TRUE,
            locks     |-> [L EXCEPT ![key] = release_in_queue(L[key], txn_id)],
            txn_locks |-> MapPut(TL, txn_id, KeysOf(TL, txn_id) \ {key})]

release_all_locks_KeepShared(L, TL, txn_id) ==
    IF KeysOf(TL, txn_id) = {}
      THEN [locks |-> L, txn_locks |-> TL]
      ELSE [locks     |-> [k \in DOMAIN L |->
                             IF k \in TL[txn_id] /\ L[k].holder_exclusive = txn_id
                               THEN release_in_queue(L[k], txn_id)
                               ELSE L[k]],
            txn_locks |-> [TL EXCEPT ![txn_id] = {}]]

release_all_locks(L, TL, txn_id) ==
    IF KeysOf(TL, txn_id) = {}
      THEN [locks |-> L, txn_locks |-> TL]
      ELSE [locks     |-> [k \in DOMAIN L |->
                             IF k \in TL[txn_id] THEN release_in_queue(L[k], txn_id)
                                                 ELSE L[k]],
            txn_locks |-> [TL EXCEPT ![txn_id] = {}]]

\* ------------------------------------------------------------------------
\* AppendLog, vector-aware record format (src/src/storage/rtree.cpp:144-318)
\* ------------------------------------------------------------------------
\* LogRecord(type, tid, key, vec, ts): a record carrying a vector
\* LogRecord(): the default-constructed record callers read into
DefaultRecord ==
    [type |-> "INSERT", transaction_id |-> 0, key |-> "", value |-> "",
     vector_data |-> <<>>, timestamp |-> 0, is_vector |-> FALSE]

\* LogRecord(type, txn_id, key, value, timestamp)
StringLogRecord(type, tid, key, value, ts) ==
    [type |-> type, transaction_id |-> tid, key |-> key, value |-> value,
     vector_data |-> <<>>, timestamp |-> ts, is_vector |-> FALSE]

\* LogRecord(type, txn_id, key, vector, timestamp)
VectorLogRecord(type, tid, key, vec, ts) ==
    [type |-> type, transaction_id |-> tid, key |-> key, value |-> "",
     vector_data |-> vec, timestamp |-> ts, is_vector |-> TRUE]

\* the vector record the KVStore builds; the clock it stamps it with is not modelled
VectorRecord(type, tid, key, vec) == VectorLogRecord(type, tid, key, vec, 0)

\* sizeof(float)
FloatSize == 4

\* the fixed part of a record: type 1, txn id 8, timestamp 8, is_vector 1, two lengths 4 + 4
HeaderSize == 1 + 8 + 8 + 1 + 4 + 4

\* serialize_record: the fields written, the payload chosen by the is_vector flag
serialize_record(record) ==
    [type |-> record.type, transaction_id |-> record.transaction_id,
     timestamp |-> record.timestamp, is_vector |-> record.is_vector, key |-> record.key,
     data |-> IF record.is_vector THEN record.vector_data ELSE record.value,
     size |-> HeaderSize + Len(record.key)
                + (IF record.is_vector THEN Len(record.vector_data) * FloatSize
                                       ELSE Len(record.value))]

\* read_record on a whole record: the fields on disk are read into the
\* caller's record; of value and vector_data only the one the is_vector flag
\* selects is assigned, the other keeps what the caller's record held
read_record(bytes, record) ==
    [type |-> bytes.type, transaction_id |-> bytes.transaction_id,
     timestamp |-> bytes.timestamp, key |-> bytes.key,
     is_vector |-> bytes.is_vector,
     value |-> IF bytes.is_vector THEN record.value ELSE bytes.data,
     vector_data |-> IF bytes.is_vector THEN bytes.data ELSE record.vector_data]

\* A write cut short leaves a strict prefix of a record at the end of the file:
\* the record with the number of its bytes that are on disk.  A record without
\* that number is there in full.
TornRecord(bytes, n) ==
    [x \in DOMAIN bytes \cup {"present"} |-> IF x = "present" THEN n ELSE bytes[x]]

Present(bytes) == IF "present" \in DOMAIN bytes THEN bytes.present ELSE bytes.size

\* the offsets within a record at which the file_.read calls of read_record end:
\* type, transaction id, timestamp, is_vector, key length, key, data length, data
ReadEnds(bytes) ==
    <<1, 9, 17, 18, 22, 22 + Len(bytes.key), 26 + Len(bytes.key), bytes.size>>

\* a read_record that takes a record as soon as its fixed fields are on disk
read_record_succeeds_HeaderOnly(bytes) == Present(bytes) >= HeaderSize

\* read_record returns true: no "gcount() != n" check fires
read_record_succeeds(bytes) ==
    \A i \in DOMAIN ReadEnds(bytes) : ReadEnds(bytes)[i] <= Present(bytes)

RECURSIVE FileSize(_)
FileSize(f) == IF f = <<>> THEN 0 ELSE Present(f[1]) + FileSize(Tail(f))

AppendLog_append_Truncating(w, record) ==
    LET bytes == serialize_record(record) IN
    [offset |-> w.current_offset,
     w |-> [w EXCEPT !.file = IF w.fail THEN @ ELSE <<bytes>>,
                     !.current_offset = @ + bytes.size]]

\* append / write_record: a write on a failed stream writes nothing, the cursor
\* moves on all the same
AppendLog_append(w, record) ==
    LET bytes == serialize_record(record) IN
    [offset |-> w.current_offset,
     w |-> [w EXCEPT !.file = IF w.fail THEN @ ELSE Append(@, bytes),
                     !.current_offset = @ + bytes.size]]

\* read_all: reads until read_record fails at end of file, which sets failbit;
\* nothing clears it.  On a failed stream the first read fails.
RECURSIVE read_records(_, _)
read_records(f, record) ==
    IF f = <<>> THEN <<>>
    ELSE IF ~read_record_succeeds(f[1]) THEN <<>>
    ELSE LET r == read_record(f[1], record) IN <<r>> \o read_records(Tail(f), r)

AppendLog_read_all(w) ==
    [records |-> IF w.fail THEN <<>> ELSE read_records(w.file, DefaultRecord),
     w |-> [w EXCEPT !.fail = TRUE]]

\* the byte offset at which record i of the file begins
RECURSIVE OffsetOf(_, _)
OffsetOf(f, i) == IF i = 1 THEN 0 ELSE f[i - 1].size + OffsetOf(f, i - 1)

\* read(offset, record) for an offset where a record begins or the end of the
\* file: seekg and read_record.  On a failed stream seekg and the reads do
\* nothing; a read at or past the end of the file sets failbit.
AppendLog_read(w, offset, record) ==
    IF ~w.fail /\ \E i \in 1..Len(w.file) : OffsetOf(w.file, i) = offset
      THEN [ok |-> TRUE,
            record |-> read_record(w.file[CHOOSE i \in 1..Len(w.file) :
                                             OffsetOf(w.file, i) = offset], record),
            w |-> w]
      ELSE [ok |-> FALSE, record |-> record, w |-> [w EXCEPT !.fail = TRUE]]

\* sync: flush, every write was flushed already
AppendLog_sync(w) == w

\* checkpoint: sync and nothing else
AppendLog_checkpoint(w) == AppendLog_sync(w)

\* ------------------------------------------------------------------------
\* HNSW: the node table and the tombstones (src/src/storage/hnsw.cpp)
\* ------------------------------------------------------------------------
\* the vectors clients send: of the index's dimension, all components equal
Vectors == {[i \in 1..Dim |-> x] : x \in {1, 2}}

NotFound == [found |-> FALSE]
Found(v) == [found |-> TRUE, vector |-> v]

\* insert: a wrong dimension and a key already in nodes_ both return early
HNSW_insert(w, key, vector, offset) ==
    IF Len(vector) # Dim THEN w
    ELSE IF key \in DOMAIN w.nodes_ THEN w
    ELSE [w EXCEPT !.nodes_ = MapPut(@, key, [vector |-> vector, file_offset |-> offset])]

HNSW_get(w, key) ==
    IF key \notin DOMAIN w.nodes_ \/ key \in w.deleted_keys_
      THEN NotFound
      ELSE Found(w.nodes_[key].vector)

HNSW_remove(w, key) ==
    IF key \notin DOMAIN w.nodes_ THEN w
    ELSE [w EXCEPT !.deleted_keys_ = @ \cup {key}]

\* ------------------------------------------------------------------------
\* HNSW: the graph (src/src/storage/hnsw.cpp).  An index is a record h of
\* nodes_, deleted_keys_ and entry_point_; a node's neighbors[lc] is
\* neighbors[lc + 1] here.  The sets are unordered_sets and the heaps break
\* ties as they like: ord, a sequence of all keys, is the order in which a
\* call finds the elements of a set and the order among equal distances.
\* ------------------------------------------------------------------------
\* HNSW(dim, M, ef_construction): the index of the model is built with
M_ == 1
max_M_ == M_ * 2
ef_construction_ == 2

\* numeric_limits<float>::max(), above every distance of the model
FloatMax == 1000000

EmptyIndex == [nodes_ |-> <<>>, deleted_keys_ |-> {}, entry_point_ |-> ""]

\* HNSWNode(k, v, offset, level): neighbors.resize(level + 1)
HNSWNode(vector, offset, level) ==
    [vector |-> vector, file_offset |-> offset, max_level |-> level,
     neighbors |-> [l \in 1..(level + 1) |-> {}]]

RECURSIVE SumSquares(_, _, _)
SumSquares(a, b, i) ==
    IF i > Len(a) THEN 0
    ELSE (a[i] - b[i]) * (a[i] - b[i]) + SumSquares(a, b, i + 1)

\* compute_distance, EUCLIDEAN (the default metric).  The code returns the
\* square root of the sum; the root keeps the order, only the order of two
\* distances is ever used, and the model carries the sum.
compute_distance(a, b) ==
    IF Len(a) # Len(b) \/ Len(a) # Dim THEN FloatMax
    ELSE SumSquares(a, b, 1)

Pos(ord, key) == CHOOSE i \in 1..Len(ord) : ord[i] = key

\* the elements of an unordered_set in the order the call finds them
InOrder(S, ord) == SelectSeq(ord, LAMBDA x : x \in S)

\* candidates.top(): cmp is a.first < b.first, the largest distance is on top
top_candidates(Q, ord) ==
    CHOOSE p \in Q : \A q \in Q :
        p[1] > q[1] \/ (p[1] = q[1] /\ Pos(ord, p[2]) <= Pos(ord, q[2]))

\* results.top(): result_cmp is a.first > b.first, the smallest distance is on top
top_results(Q, ord) ==
    CHOOSE p \in Q : \A q \in Q :
        p[1] < q[1] \/ (p[1] = q[1] /\ Pos(ord, p[2]) <= Pos(ord, q[2]))

\* the for loop of search_layer over the neighbors ns of the current node
RECURSIVE visit_neighbors(_, _, _, _, _, _)
visit_neighbors(h, query, ef, ord, ns, s) ==
    IF ns = <<>> THEN s
    ELSE LET neighbor_key == Head(ns)
             v == [s EXCEPT !.visited = @ \cup {neighbor_key}]
         IN IF neighbor_key \in s.visited
              THEN visit_neighbors(h, query, ef, ord, Tail(ns), s)
            ELSE IF neighbor_key \in h.deleted_keys_
              THEN visit_neighbors(h, query, ef, ord, Tail(ns), v)
            ELSE LET d == compute_distance(query, h.nodes_[neighbor_key].vector) IN
                 IF Cardinality(v.results) < ef \/ d < top_results(v.results, ord)[1]
                   THEN LET pushed == v.results \cup {<<d, neighbor_key>>}
                            kept == IF Cardinality(pushed) > ef
                                      THEN pushed \ {top_results(pushed, ord)}
                                      ELSE pushed
                        IN visit_neighbors(h, query, ef, ord, Tail(ns),
                               [v EXCEPT !.candidates = @ \cup {<<d, neighbor_key>>},
                                         !.results = kept])
                   ELSE visit_neighbors(h, query, ef, ord, Tail(ns), v)

\* the while loop of search_layer: the state it is left with
RECURSIVE search_loop(_, _, _, _, _, _)
search_loop(h, query, ef, level, ord, s) ==
    IF s.candidates = {} THEN s
    ELSE LET current == top_candidates(s.candidates, ord)
             popped == [s EXCEPT !.candidates = @ \ {current}]
             node == h.nodes_[current[2]]
         IN IF Cardinality(s.results) >= ef /\ current[1] > top_results(s.results, ord)[1]
              THEN s
            ELSE IF level < Len(node.neighbors)
              THEN search_loop(h, query, ef, level, ord,
                       visit_neighbors(h, query, ef, ord,
                                       InOrder(node.neighbors[level + 1], ord), popped))
            ELSE search_loop(h, query, ef, level, ord, popped)

\* "Extract results": pop results until it is empty, smallest distance first
RECURSIVE pop_all(_, _)
pop_all(Q, ord) ==
    IF Q = {} THEN <<>>
    ELSE LET p == top_results(Q, ord) IN <<p[2]>> \o pop_all(Q \ {p}, ord)

\* std::reverse
Reverse(q) == [i \in 1..Len(q) |-> q[Len(q) + 1 - i]]

\* search_layer up to "Extract results": visited, candidates and results when
\* the while loop is left
search_layer_loop(h, query, entry_point, ef, level, ord) ==
    LET dist == compute_distance(query, h.nodes_[entry_point].vector)
        s == [visited |-> {entry_point}, candidates |-> {<<dist, entry_point>>},
              results |-> {<<dist, entry_point>>}]
    IN search_loop(h, query, ef, level, ord, s)

search_layer(h, query, entry_point, ef, level, ord) ==
    Reverse(pop_all(search_layer_loop(h, query, entry_point, ef, level, ord).results, ord))

\* std::sort on pair<float, string>: by distance, then by key
PairLess(p, q) == p[1] < q[1] \/ (p[1] = q[1] /\ KeyRank(p[2]) < KeyRank(q[2]))

RECURSIVE sorted_keys(_)
sorted_keys(Q) ==
    IF Q = {} THEN <<>>
    ELSE LET p == CHOOSE x \in Q : \A y \in Q \ {x} : PairLess(x, y)
         IN <<p[2]>> \o sorted_keys(Q \ {p})

select_neighbors_heuristic(h, candidates, query, M) ==
    IF Len(candidates) <= M THEN candidates
    ELSE LET distances == {<<compute_distance(query, h.nodes_[candidates[i]].vector),
                             candidates[i]>> :
                              i \in {j \in 1..Len(candidates) :
                                        candidates[j] \notin h.deleted_keys_}}
             sorted == sorted_keys(distances)
         IN SubSeq(sorted, 1, IF M < Len(sorted) THEN M ELSE Len(sorted))

\* "Search from top level to level+1": greedy descent with ef = 1
RECURSIVE descend(_, _, _, _, _, _)
descend(h, query, curr_nearest, lc, stop, ord) ==
    IF lc <= stop THEN curr_nearest
    ELSE LET candidates == search_layer(h, query, curr_nearest, 1, lc, ord)
         IN descend(h, query, IF candidates # <<>> THEN candidates[1] ELSE curr_nearest,
                    lc - 1, stop, ord)

\* "Add bidirectional links" for the selected neighbors from position i on
RECURSIVE link_neighbors(_, _, _, _, _, _, _)
link_neighbors(h, key, neighbors, i, lc, M, ord) ==
    IF i > Len(neighbors) THEN h
    ELSE LET neighbor_key == neighbors[i]
             h1 == [h EXCEPT !.nodes_[key].neighbors[lc + 1] = @ \cup {neighbor_key}]
             neighbor_node == h1.nodes_[neighbor_key]
             connections == neighbor_node.neighbors[lc + 1] \cup {key}
             pruned == select_neighbors_heuristic(h1, InOrder(connections, ord),
                                                  neighbor_node.vector, M)
             h2 == IF neighbor_key \in DOMAIN h1.nodes_ /\ lc < Len(neighbor_node.neighbors)
                     THEN [h1 EXCEPT !.nodes_[neighbor_key].neighbors[lc + 1] =
                              IF Cardinality(connections) > M
                                THEN {pruned[j] : j \in 1..Len(pruned)}
                                ELSE connections]
                     ELSE h1
         IN link_neighbors(h2, key, neighbors, i + 1, lc, M, ord)

\* "Insert at each level from level to 0"
RECURSIVE insert_levels(_, _, _, _, _, _)
insert_levels(h, key, vector, curr_nearest, lc, ord) ==
    IF lc < 0 THEN h
    ELSE LET candidates == search_layer(h, vector, curr_nearest, ef_construction_, lc, ord)
             M == IF lc = 0 THEN max_M_ ELSE M_
             neighbors == select_neighbors_heuristic(h, candidates, vector, M)
         IN insert_levels(link_neighbors(h, key, neighbors, 1, lc, M, ord), key, vector,
                          IF candidates # <<>> THEN candidates[1] ELSE curr_nearest,
                          lc - 1, ord)

\* insert; level is what get_random_level returned
insert(h, key, vector, offset, level, ord) ==
    IF Len(vector) # Dim THEN h
    ELSE IF key \in DOMAIN h.nodes_ THEN h
    ELSE LET h1 == [h EXCEPT !.nodes_ = MapPut(@, key, HNSWNode(vector, offset, level))] IN
         IF h.entry_point_ = "" THEN [h1 EXCEPT !.entry_point_ = key]
         ELSE LET entry_level == h1.nodes_[h1.entry_point_].max_level
                  curr_nearest == descend(h1, vector, h1.entry_point_, entry_level, level, ord)
                  h2 == insert_levels(h1, key, vector, curr_nearest, level, ord)
              IN IF level > h2.nodes_[h2.entry_point_].max_level
                   THEN [h2 EXCEPT !.entry_point_ = key]
                   ELSE h2

\* a search that returns its first k candidates whether tombstoned or not
RECURSIVE top_k_KeepTombstoned(_, _, _, _, _)
top_k_KeepTombstoned(h, query, candidates, i, n) ==
    IF i > n THEN <<>>
    ELSE <<[key |-> candidates[i],
            distance |-> compute_distance(query, h.nodes_[candidates[i]].vector)]>>
         \o top_k_KeepTombstoned(h, query, candidates, i + 1, n)

\* "Return top k results": the first k candidates, the tombstoned ones left out
RECURSIVE top_k(_, _, _, _, _)
top_k(h, query, candidates, i, n) ==
    IF i > n THEN <<>>
    ELSE (IF candidates[i] \notin h.deleted_keys_
            THEN <<[key |-> candidates[i],
                    distance |-> compute_distance(query, h.nodes_[candidates[i]].vector)]>>
            ELSE <<>>)
         \o top_k(h, query, candidates, i + 1, n)

search(h, query, k, ef_search, ord) ==
    IF h.entry_point_ = "" \/ Len(query) # Dim THEN <<>>
    ELSE LET entry_level == h.nodes_[h.entry_point_].max_level
             curr_nearest == descend(h, query, h.entry_point_, entry_level, 0, ord)
             candidates == search_layer(h, query, curr_nearest,
                                        IF ef_search > k THEN ef_search ELSE k, 0, ord)
         IN top_k(h, query, candidates, 1, IF k < Len(candidates) THEN k ELSE Len(candidates))

get(h, key) ==
    IF key \notin DOMAIN h.nodes_ \/ key \in h.deleted_keys_
      THEN NotFound
      ELSE Found(h.nodes_[key].vector)

\* remove: a tombstone, the graph stays as it is
remove(h, key) ==
    IF key \notin DOMAIN h.nodes_
      THEN [ret |-> FALSE, h |-> h]
      ELSE [ret |-> TRUE, h |-> [h EXCEPT !.deleted_keys_ = @ \cup {key}]]

\* ------------------------------------------------------------------------
\* KVStore, vector mode (src/unnamed/part_002)
\* ------------------------------------------------------------------------
KVStore_put_vector(w, txn_id, key, vector) ==
    LET a == AppendLog_append(w, VectorRecord("INSERT", txn_id, key, vector)) IN
    HNSW_insert([a.w EXCEPT !.index_ = MapPut(@, key, a.offset)], key, vector, a.offset)

KVStore_get_vector(w, key) == HNSW_get(w, key)

KVStore_remove(w, txn_id, key) ==
    IF key \notin DOMAIN w.index_
      THEN [ret |-> FALSE, w |-> w]
      ELSE LET a == AppendLog_append(w, VectorRecord("DELETE", txn_id, key, <<>>)) IN
           [ret |-> TRUE,
            w |-> HNSW_remove([a.w EXCEPT !.index_ = MapErase(@, key)], key)]

\* commit: the COMMIT record, then sync (a flush, no state of its own)
KVStore_commit(w, txn_id) ==
    AppendLog_append(w, VectorRecord("COMMIT", txn_id, "", <<>>)).w

\* the "offset += 100" estimate of replay_log
ReplayOffsetStep == 100

\* the loop of replay_log from record i on
RECURSIVE replay_records(_, _, _)
replay_records(w, records, i) ==
    IF i > Len(records) THEN w
    ELSE LET record == records[i]
             offset == (i - 1) * ReplayOffsetStep
         IN replay_records(
              IF record.type = "INSERT" /\ record.is_vector
                THEN HNSW_insert([w EXCEPT !.index_ = MapPut(@, record.key, offset)],
                                 record.key, record.vector_data, offset)
              ELSE IF record.type = "DELETE"
                THEN HNSW_remove([w EXCEPT !.index_ = MapErase(@, record.key)], record.key)
              ELSE w,
              records, i + 1)

\* recover / replay_log
KVStore_replay_log(w) ==
    LET r == AppendLog_read_all(w) IN replay_records(r.w, r.records, 1)

\* a process started on log file f: the TransactionManager, LockManager, AppendLog and
\* KVStore constructors; the KVStore constructor runs recover()
ProcessStart(f) ==
    KVStore_replay_log(
      [next_txn_id |-> 1, transactions |-> <<>>,
       locks |-> <<>>, txn_locks |-> [t \in AllTxnIds |-> {}],
       index_ |-> <<>>, nodes_ |-> <<>>, deleted_keys_ |-> {},
       file |-> f, fail |-> FALSE, current_offset |-> FileSize(f)])

\* ------------------------------------------------------------------------
\* TransactionManager (src/unnamed/part_003)
\* ------------------------------------------------------------------------
TM_begin_transaction(w) ==
    [txn_id |-> w.next_txn_id,
     w |-> [w EXCEPT !.next_txn_id = @ + 1,
                     !.transactions = MapPut(@, w.next_txn_id,
                                             [state |-> "ACTIVE", write_set |-> <<>>])]]

\* get_transaction(txn_id) returns a transaction and it is ACTIVE
IsActive(w, txn_id) ==
    txn_id \in DOMAIN w.transactions /\ w.transactions[txn_id].state = "ACTIVE"

\* the loop of commit_transaction over the write set from entry i on
RECURSIVE apply_write_set(_, _, _, _)
apply_write_set(w, txn_id, write_set, i) ==
    IF i > Len(write_set) THEN w
    ELSE apply_write_set(
           KVStore_put_vector(w, txn_id, write_set[i].key, write_set[i].vector),
           txn_id, write_set, i + 1)

TM_commit_transaction(w, txn_id) ==
    IF ~IsActive(w, txn_id) THEN [ret |-> FALSE, w |-> w]
    ELSE LET w1 == apply_write_set(w, txn_id, w.transactions[txn_id].write_set, 1)
             w2 == KVStore_commit(w1, txn_id)
             r  == release_all_locks(w2.locks, w2.txn_locks, txn_id)
         IN [ret |-> TRUE,
             w |-> [w2 EXCEPT !.locks = r.locks, !.txn_locks = r.txn_locks,
                              !.transactions = MapErase(@, txn_id)]]

TM_rollback_transaction_NoStateCheck(w, txn_id) ==
    LET r == release_all_locks(w.locks, w.txn_locks, txn_id)
    IN [ret |-> TRUE,
        w |-> [w EXCEPT !.locks = r.locks, !.txn_locks = r.txn_locks,
                        !.transactions = MapErase(@, txn_id)]]

TM_rollback_transaction(w, txn_id) ==
    IF ~IsActive(w, txn_id) THEN [ret |-> FALSE, w |-> w]
    ELSE LET r == release_all_locks(w.locks, w.txn_locks, txn_id)
         IN [ret |-> TRUE,
             w |-> [w EXCEPT !.locks = r.locks, !.txn_locks = r.txn_locks,
                             !.transactions = MapErase(@, txn_id)]]

\* the positions of key in a write set
WritesOf(write_set, key) == {i \in 1..Len(write_set) : write_set[i].key = key}

FirstOf(S) == CHOOSE i \in S : \A j \in S : i <= j

\* read, once the shared lock is held: the write set first, then the store
TM_read_locked(w, txn_id, key) ==
    LET write_set == w.transactions[txn_id].write_set
        at == WritesOf(write_set, key)
    IN IF at # {} THEN Found(write_set[FirstOf(at)].vector)
       ELSE KVStore_get_vector(w, key)

TM_write_locked_Immediate(w, txn_id, key, vector) ==
    KVStore_put_vector(w, txn_id, key, vector)

\* write, once the exclusive lock is held: update in place or push_back
TM_write_locked(w, txn_id, key, vector) ==
    LET write_set == w.transactions[txn_id].write_set
        at == WritesOf(write_set, key)
    IN [w EXCEPT !.transactions[txn_id].write_set =
          IF at # {} THEN [@ EXCEPT ![FirstOf(at)].vector = vector]
          ELSE Append(@, [key |-> key, vector |-> vector])]

\* remove, once the exclusive lock is held: the delete goes to the store at once
TM_remove_locked(w, txn_id, key) == KVStore_remove(w, txn_id, key)

\* ------------------------------------------------------------------------
\* Connection (src/src/network/connection.cpp) over one server process
\* ------------------------------------------------------------------------
Clients == {"c1", "c2"}

\* the keys the clients of SpecTxn use
StoreKeys == {"a"}

\* Connection(): current_txn_id_(0), in_transaction_(false)
NoTxn == 0
NewConnection == [in_transaction_ |-> FALSE, current_txn_id_ |-> NoTxn]

NoCall == [op |-> "none"]

\* the process state the TransactionManager methods work on
World ==
    [next_txn_id |-> next_txn_id, transactions |-> transactions,
     locks |-> locks, txn_locks |-> txn_locks,
     index_ |-> index_, nodes_ |-> nodes_, deleted_keys_ |-> deleted_keys_,
     file |-> file, fail |-> fail, current_offset |-> current_offset]

SetWorld(w) ==
    /\ next_txn_id' = w.next_txn_id
    /\ transactions' = w.transactions
    /\ locks' = w.locks
    /\ txn_locks' = w.txn_locks
    /\ index_' = w.index_
    /\ nodes_' = w.nodes_
    /\ deleted_keys_' = w.deleted_keys_
    /\ file' = w.file
    /\ fail' = w.fail
    /\ current_offset' = w.current_offset

\* what GET answers for every key
Visible(w) == [k \in StoreKeys |-> KVStore_get_vector(w, k)]

\* History: per transaction, the keys it wrote with what the store answered for
\* them at the first write (prior), the keys it deleted from the store (removed),
\* the visible store at its begin if no other transaction was alive from then
\* on (Dirty if not), and its write and remove calls that returned true, in the
\* order the client made them (ops).
Dirty == [alone |-> FALSE]
Snapshot(w) == [alone |-> TRUE, store |-> Visible(w)]
NewGhost(snap) == [prior |-> {}, removed |-> {}, snap |-> snap, ops |-> <<>>]
GhostInit == [t \in TxnIds |-> NewGhost(Dirty)]

GhostBegin(g, w, t) ==
    [x \in TxnIds |->
       IF x = t THEN NewGhost(IF DOMAIN w.transactions = {} THEN Snapshot(w) ELSE Dirty)
       ELSE IF x \in DOMAIN w.transactions THEN [g[x] EXCEPT !.snap = Dirty]
       ELSE g[x]]

\* History: after a commit of a transaction that wrote write_set and deleted
\* removed, what the store (w) answers for the keys it touched
CommitSeen(cm, w, write_set, removed) ==
    [k \in StoreKeys |->
       IF k \in removed \/ WritesOf(write_set, k) # {}
         THEN KVStore_get_vector(w, k)
         ELSE cm[k]]

LockModeOf(op) == IF op = "read" THEN "SHARED" ELSE "EXCLUSIVE"

\* read / write / remove from the point where the lock is held, and the rest of
\* the handler: in auto-commit mode the commit or rollback that follows
CallLocked(c, w, call, waited, g) ==
    LET t   == call.txn_id
        own == WritesOf(w.transactions[t].write_set, call.key) # {}
        rd  == TM_read_locked(w, t, call.key)
        rm  == TM_remove_locked(w, t, call.key)
        w1  == CASE call.op = "read"   -> w
                 [] call.op = "write"  -> TM_write_locked(w, t, call.key, call.vector)
                 [] call.op = "remove" -> rm.w
        ok  == CASE call.op = "read"   -> rd.found
                 [] call.op = "write"  -> TRUE
                 [] call.op = "remove" -> rm.ret
        g1  == [g EXCEPT
                 ![t].prior = IF call.op = "write" /\ ~own
                                THEN @ \cup {<<call.key, KVStore_get_vector(w, call.key)>>}
                                ELSE @,
                 ![t].removed = IF call.op = "remove" /\ ok THEN @ \cup {call.key} ELSE @,
                 ![t].ops = IF call.op = "write"
                              THEN Append(@, [type |-> "INSERT", key |-> call.key])
                            ELSE IF call.op = "remove" /\ ok
                              THEN Append(@, [type |-> "DELETE", key |-> call.key])
                            ELSE @]
        commits == call.auto /\ (ok \/ call.op = "read")
        fin == IF ~call.auto THEN w1
               ELSE IF commits THEN TM_commit_transaction(w1, t).w
               ELSE TM_rollback_transaction(w1, t).w
    IN /\ SetWorld(fin)
       /\ ghost' = g1
       /\ committed' = IF commits
                         THEN CommitSeen(committed, fin, w1.transactions[t].write_set,
                                         g1[t].removed)
                         ELSE committed
       /\ blocked' = [blocked EXCEPT ![c] = NoCall]
       /\ last' = IF call.op = "read"
                     THEN [op |-> "read", txn_id |-> t, key |-> call.key, result |-> rd,
                           waited |-> waited, own |-> own]
                   ELSE IF commits
                     THEN [op |-> "commit", ok |-> TRUE, txn_id |-> t,
                           write_set |-> w1.transactions[t].write_set, ops |-> g1[t].ops]
                   ELSE [op |-> call.op, ok |-> ok, txn_id |-> t, key |-> call.key,
                         vector |-> call.vector]

\* read / write / remove up to acquire_lock: granted at once or left waiting
CallEnter(c, w, call, g) ==
    LET e  == acquire_lock_enter(w.locks, w.txn_locks, call.txn_id, call.key,
                                 LockModeOf(call.op))
        w1 == [w EXCEPT !.locks = e.locks, !.txn_locks = e.txn_locks]
    IN IF ~IsActive(w, call.txn_id)
         THEN \* the call returns false; a commit or rollback that follows does too
              /\ SetWorld(w)
              /\ ghost' = g
              /\ last' = [op |-> "error", call |-> call.op, txn_id |-> call.txn_id]
              /\ UNCHANGED <<blocked, committed>>
       ELSE IF e.granted
         THEN CallLocked(c, w1, call, FALSE, g)
         ELSE /\ SetWorld(w1)
              /\ ghost' = g
              /\ blocked' = [blocked EXCEPT ![c] = call]
              /\ last' = [op |-> "wait", txn_id |-> call.txn_id]
              /\ UNCHANGED committed

\* handle_get / handle_insert / handle_delete
HandleCall(c, op, key, vector) ==
    /\ blocked[c] = NoCall
    /\ IF conn[c].in_transaction_
         THEN /\ CallEnter(c, World,
                        [op |-> op, txn_id |-> conn[c].current_txn_id_, key |-> key,
                         vector |-> vector, auto |-> FALSE], ghost)
              /\ UNCHANGED begun
         ELSE /\ begun < MaxTxns
              /\ begun' = begun + 1
              /\ LET b == TM_begin_transaction(World) IN
                 CallEnter(c, b.w,
                           [op |-> op, txn_id |-> b.txn_id, key |-> key,
                            vector |-> vector, auto |-> TRUE],
                           GhostBegin(ghost, World, b.txn_id))
    /\ UNCHANGED <<conn, lk_wait, casVars>>

HandleGet(c) == \E key \in StoreKeys : HandleCall(c, "read", key, <<>>)

HandleInsert(c) == \E key \in StoreKeys, vector \in Vectors : HandleCall(c, "write", key, vector)

HandleDelete(c) == \E key \in StoreKeys : HandleCall(c, "remove", key, <<>>)

\* the thread of c leaves queue.cv.wait and finishes its call
Resume(c) ==
    /\ blocked[c] # NoCall
    /\ wait_over(locks, blocked[c].txn_id, blocked[c].key)
    /\ LET l == acquire_lock_leave(locks, txn_locks, blocked[c].txn_id, blocked[c].key)
       IN CallLocked(c, [World EXCEPT !.locks = l.locks, !.txn_locks = l.txn_locks],
                     blocked[c], TRUE, ghost)
    /\ UNCHANGED <<conn, begun, lk_wait, casVars>>

\* handle_begin; "ERROR: Already in transaction" changes nothing
HandleBegin(c) ==
    /\ blocked[c] = NoCall
    /\ ~conn[c].in_transaction_
    /\ begun < MaxTxns
    /\ begun' = begun + 1
    /\ LET b == TM_begin_transaction(World) IN
         /\ SetWorld(b.w)
         /\ conn' = [conn EXCEPT ![c] = [in_transaction_ |-> TRUE,
                                         current_txn_id_ |-> b.txn_id]]
         /\ ghost' = GhostBegin(ghost, World, b.txn_id)
    /\ last' = [op |-> "begin"]
    /\ UNCHANGED <<blocked, committed, lk_wait, casVars>>

\* handle_commit; "ERROR: Not in transaction" changes nothing
HandleCommit(c) ==
    /\ blocked[c] = NoCall
    /\ conn[c].in_transaction_
    /\ LET t == conn[c].current_txn_id_
           r == TM_commit_transaction(World, t)
       IN /\ SetWorld(r.w)
          /\ committed' = IF r.ret
                            THEN CommitSeen(committed, r.w, transactions[t].write_set,
                                            ghost[t].removed)
                            ELSE committed
          /\ last' = [op |-> "commit", ok |-> r.ret, txn_id |-> t,
                      write_set |-> IF r.ret THEN transactions[t].write_set ELSE <<>>,
                      ops |-> IF r.ret THEN ghost[t].ops ELSE <<>>]
    /\ conn' = [conn EXCEPT ![c] = NewConnection]
    /\ UNCHANGED <<blocked, ghost, begun, lk_wait, casVars>>

\* handle_rollback; "ERROR: Not in transaction" changes nothing
HandleRollback(c) ==
    /\ blocked[c] = NoCall
    /\ conn[c].in_transaction_
    /\ LET t == conn[c].current_txn_id_
           r == TM_rollback_transaction(World, t)
       IN /\ SetWorld(r.w)
          /\ last' = [op |-> "rollback", ok |-> r.ret,
                      prior |-> ghost[t].prior, removed |-> ghost[t].removed,
                      snap |-> ghost[t].snap]
    /\ conn' = [conn EXCEPT ![c] = NewConnection]
    /\ UNCHANGED <<blocked, ghost, committed, begun, lk_wait, casVars>>

\* the connection of c ends with the destructor leaving an open transaction as it is
Disconnect_NoRollback(c) ==
    /\ blocked[c] = NoCall
    /\ SetWorld(World)
    /\ last' = [op |-> "disconnect", client |-> c, open |-> conn[c].in_transaction_,
                txn_id |-> conn[c].current_txn_id_,
                keys |-> IF conn[c].in_transaction_
                           THEN KeysOf(txn_locks, conn[c].current_txn_id_) ELSE {}]
    /\ conn' = [conn EXCEPT ![c] = NewConnection]
    /\ UNCHANGED <<blocked, ghost, committed, begun, lk_wait, casVars>>

\* the connection of c ends: read_line returns an empty line or QUIT, handle()
\* returns and ~Connection rolls an open transaction back.  The thread is in
\* read_line, not inside a command.  The client connects again on a new Connection.
Disconnect(c) ==
    /\ blocked[c] = NoCall
    /\ SetWorld(IF conn[c].in_transaction_
                  THEN TM_rollback_transaction(World, conn[c].current_txn_id_).w
                  ELSE World)
    /\ last' = [op |-> "disconnect", client |-> c, open |-> conn[c].in_transaction_,
                txn_id |-> conn[c].current_txn_id_,
                keys |-> IF conn[c].in_transaction_
                           THEN KeysOf(txn_locks, conn[c].current_txn_id_) ELSE {}]
    /\ conn' = [conn EXCEPT ![c] = NewConnection]
    /\ UNCHANGED <<blocked, ghost, committed, begun, lk_wait, casVars>>

\* the process is killed and started again on the same log file
Restart ==
    /\ SetWorld(ProcessStart(file))
    /\ conn' = [c \in Clients |-> NewConnection]
    /\ blocked' = [c \in Clients |-> NoCall]
    /\ ghost' = GhostInit
    /\ committed' = Visible(ProcessStart(file))
    /\ last' = [op |-> "restart", committed |-> committed]
    /\ UNCHANGED <<begun, lk_wait, casVars>>

\* ------------------------------------------------------------------------
\* The TransactionManager called directly (src/unnamed/part_003): threads that
\* call begin_transaction, read, write, remove, commit_transaction and
\* rollback_transaction with any transaction id and any vector.
\* ------------------------------------------------------------------------
\* the transaction ids the callers pass: those begun and one never begun
CallerTxnIds == 1..(MaxTmTxns + 1)

\* a vector whose length is not the configured dimension
WrongDimension == [i \in 1..(Dim + 1) |-> 1]

\* the vectors the callers pass: one of the configured dimension, one not
CallerVectors == {[i \in 1..Dim |-> 1], WrongDimension}

\* no thread is inside a call of transaction txn_id: a transaction is driven by
\* one thread at a time, as a Connection drives its own
NotInCall(txn_id) ==
    \A d \in Clients : IF blocked[d] = NoCall THEN TRUE ELSE blocked[d].txn_id # txn_id

\* Threads outside a call carry no state of their own and are interchangeable:
\* the next call is made by one chosen free thread.
Caller(c) == blocked[c] = NoCall /\ c = CHOOSE d \in Clients : blocked[d] = NoCall

\* begin_transaction
TmBegin(c) ==
    /\ Caller(c)
    /\ begun < MaxTmTxns
    /\ begun' = begun + 1
    /\ LET b == TM_begin_transaction(World) IN
         /\ SetWorld(b.w)
         /\ ghost' = GhostBegin(ghost, World, b.txn_id)
         /\ last' = [op |-> "begin", txn_id |-> b.txn_id]
    /\ UNCHANGED <<conn, blocked, committed, lk_wait, casVars>>

\* read / write / remove
TmCall(c) ==
    /\ Caller(c)
    /\ \E op \in {"read", "write", "remove"}, txn_id \in CallerTxnIds, key \in StoreKeys :
          /\ NotInCall(txn_id)
          /\ \E vector \in IF op = "write" THEN CallerVectors ELSE {<<>>} :
                CallEnter(c, World,
                          [op |-> op, txn_id |-> txn_id, key |-> key,
                           vector |-> vector, auto |-> FALSE],
                          ghost)
    /\ UNCHANGED <<conn, begun, lk_wait, casVars>>

\* commit_transaction
TmCommit(c) ==
    /\ Caller(c)
    /\ \E t \in CallerTxnIds :
          LET r == TM_commit_transaction(World, t)
              write_set == IF r.ret THEN transactions[t].write_set ELSE <<>>
          IN /\ NotInCall(t)
             /\ SetWorld(r.w)
             /\ committed' = IF r.ret
                               THEN CommitSeen(committed, r.w, write_set, ghost[t].removed)
                               ELSE committed
             /\ last' = [op |-> "commit", ok |-> r.ret, txn_id |-> t,
                         write_set |-> write_set,
                         ops |-> IF r.ret THEN ghost[t].ops ELSE <<>>]
    /\ UNCHANGED <<conn, blocked, ghost, begun, lk_wait, casVars>>

\* rollback_transaction
TmRollback(c) ==
    /\ Caller(c)
    /\ \E t \in CallerTxnIds :
          LET r == TM_rollback_transaction(World, t) IN
             /\ NotInCall(t)
             /\ SetWorld(r.w)
             /\ last' = [op |-> "rollback", ok |-> r.ret, txn_id |-> t]
    /\ UNCHANGED <<conn, blocked, ghost, committed, begun, lk_wait, casVars>>

\* ------------------------------------------------------------------------
\* The connection threads inside the TransactionManager, step by step
\* (src/unnamed/part_003): TransactionManager::mutex_, the accesses to the
\* table transactions_, and the calls into the KVStore, each of which runs
\* under KVStore::mutex_ on its own.
\* ------------------------------------------------------------------------
\* mutex_ is free
NoThread == ""

\* a thread outside every call
IdleTmThread == [pc |-> "idle", i |-> 0, raced |-> FALSE, call |-> NoCall]

\* the thread is inside transactions_[txn_id] = ... or transactions_.erase(txn_id)
Mutating(th) == th.pc \in {"begin_insert", "commit_erase"}

\* the thread is inside transactions_.find(txn_id) of get_transaction
Looking(th) == th.pc = "lookup"

\* a mutation of the table begins: every find in progress now races with it
RaceLookups(threads) ==
    [d \in Clients |-> IF Looking(threads[d]) THEN [threads[d] EXCEPT !.raced = TRUE]
                                              ELSE threads[d]]

\* begin_transaction: lock_guard on mutex_, and into the insertion
FgBeginLock(c) ==
    /\ tm_threads[c].pc = "idle" /\ blocked[c] = NoCall
    /\ ~conn[c].in_transaction_
    /\ begun < MaxTmTxns
    /\ tm_mutex = NoThread
    /\ tm_mutex' = c
    /\ tm_threads' = [RaceLookups(tm_threads) EXCEPT ![c].pc = "begin_insert"]
    /\ UNCHANGED <<lockVars, lk_wait, txnVars, casCoreVars, proposer_log, acc_last,
                   log_hist, hnsw, hnsw_hist>>

\* begin_transaction: the insertion is done, the mutex released; handle_begin
FgBeginInsert(c) ==
    /\ tm_threads[c].pc = "begin_insert"
    /\ LET b == TM_begin_transaction(World) IN
         /\ SetWorld(b.w)
         /\ conn' = [conn EXCEPT ![c] = [in_transaction_ |-> TRUE,
                                         current_txn_id_ |-> b.txn_id]]
         /\ ghost' = GhostBegin(ghost, World, b.txn_id)
         /\ last' = [op |-> "begin", txn_id |-> b.txn_id]
    /\ begun' = begun + 1
    /\ tm_mutex' = NoThread
    /\ tm_threads' = [tm_threads EXCEPT ![c] = IdleTmThread]
    /\ UNCHANGED <<blocked, committed, lk_wait, casCoreVars, proposer_log, acc_last,
                   log_hist, hnsw, hnsw_hist>>

\* read / write / remove of the connection's transaction: into get_transaction,
\* with no lock on mutex_.  Clients write the keys of Keys and read and remove
\* those of StoreKeys.
FgLookup(c) ==
    /\ tm_threads[c].pc = "idle" /\ blocked[c] = NoCall
    /\ conn[c].in_transaction_
    /\ \E op \in {"read", "write", "remove"}, key \in Keys :
          /\ (op # "write" => key \in StoreKeys)
          /\ tm_threads' = [tm_threads EXCEPT ![c] =
                [pc |-> "lookup", i |-> 0,
                 raced |-> \E d \in Clients : Mutating(tm_threads[d]),
                 call |-> [op |-> op, txn_id |-> conn[c].current_txn_id_, key |-> key,
                           vector |-> IF op = "write" THEN [i \in 1..Dim |-> 1] ELSE <<>>,
                           auto |-> FALSE]]]
    /\ UNCHANGED <<lockVars, lk_wait, txnVars, casCoreVars, proposer_log, acc_last,
                   log_hist, hnsw, hnsw_hist, tm_mutex>>

\* read / write / remove from the return of get_transaction on.  A find that
\* ran while another thread changed the table is a data race: it may have
\* found the transaction or not.
FgCall(c) ==
    /\ tm_threads[c].pc = "lookup"
    /\ \/ CallEnter(c, World, tm_threads[c].call, ghost)
       \/ /\ tm_threads[c].raced
          /\ SetWorld(World)
          /\ last' = [op |-> "error", call |-> tm_threads[c].call.op,
                      txn_id |-> tm_threads[c].call.txn_id]
          /\ UNCHANGED <<blocked, committed, ghost>>
    /\ tm_threads' = [tm_threads EXCEPT ![c] = IdleTmThread]
    /\ UNCHANGED <<conn, begun, lk_wait, casCoreVars, proposer_log, acc_last,
                   log_hist, hnsw, hnsw_hist, tm_mutex>>

\* commit_transaction: lock_guard on mutex_, get_transaction and the state check
FgCommitLock(c) ==
    /\ tm_threads[c].pc = "idle" /\ blocked[c] = NoCall
    /\ conn[c].in_transaction_
    /\ IsActive(World, conn[c].current_txn_id_)
    /\ tm_mutex = NoThread
    /\ tm_mutex' = c
    /\ tm_threads' = [tm_threads EXCEPT ![c].pc = "commit_apply", ![c].i = 1]
    /\ UNCHANGED <<lockVars, lk_wait, txnVars, casCoreVars, proposer_log, acc_last,
                   log_hist, hnsw, hnsw_hist>>

\* commit_transaction: one turn of the loop over the write set, a put_vector
FgCommitPut(c) ==
    /\ tm_threads[c].pc = "commit_apply"
    /\ LET t == conn[c].current_txn_id_
           write == transactions[t].write_set
       IN /\ tm_threads[c].i <= Len(write)
          /\ SetWorld(KVStore_put_vector(World, t, write[tm_threads[c].i].key,
                                         write[tm_threads[c].i].vector))
          /\ last' = [op |-> "put_vector", txn_id |-> t, key |-> write[tm_threads[c].i].key]
    /\ tm_threads' = [tm_threads EXCEPT ![c].i = @ + 1]
    /\ UNCHANGED <<conn, blocked, committed, ghost, begun, lk_wait, casCoreVars,
                   proposer_log, acc_last, log_hist, hnsw, hnsw_hist, tm_mutex>>

\* commit_transaction after the loop: the COMMIT record, the state, the locks
\* released, and into the erase
FgCommitLog(c) ==
    /\ tm_threads[c].pc = "commit_apply"
    /\ LET t == conn[c].current_txn_id_
           w2 == KVStore_commit(World, t)
           r == release_all_locks(w2.locks, w2.txn_locks, t)
       IN /\ tm_threads[c].i > Len(transactions[t].write_set)
          /\ SetWorld([w2 EXCEPT !.locks = r.locks, !.txn_locks = r.txn_locks,
                                 !.transactions[t].state = "COMMITTED"])
          /\ last' = [op |-> "commit_record", txn_id |-> t]
    /\ tm_threads' = [RaceLookups(tm_threads) EXCEPT ![c].pc = "commit_erase"]
    /\ UNCHANGED <<conn, blocked, committed, ghost, begun, lk_wait, casCoreVars,
                   proposer_log, acc_last, log_hist, hnsw, hnsw_hist, tm_mutex>>

\* commit_transaction: the erase is done, the mutex released; handle_commit
FgCommitErase(c) ==
    /\ tm_threads[c].pc = "commit_erase"
    /\ LET t == conn[c].current_txn_id_
           write_set == transactions[t].write_set
           w == [World EXCEPT !.transactions = MapErase(@, t)]
       IN /\ SetWorld(w)
          /\ committed' = CommitSeen(committed, w, write_set, ghost[t].removed)
          /\ last' = [op |-> "commit", ok |-> TRUE, txn_id |-> t,
                      write_set |-> write_set, ops |-> ghost[t].ops]
    /\ conn' = [conn EXCEPT ![c] = NewConnection]
    /\ tm_mutex' = NoThread
    /\ tm_threads' = [tm_threads EXCEPT ![c] = IdleTmThread]
    /\ UNCHANGED <<blocked, ghost, begun, lk_wait, casCoreVars, proposer_log, acc_last,
                   log_hist, hnsw, hnsw_hist>>

\* KVStore::search_vectors under KVStore's mutex_: the answers a search for k
\* neighbours can give, over every query: k of the nodes of the index that are
\* not tombstoned, or all of them when there are fewer than k
KVStore_search_vectors(w, k) ==
    LET live == DOMAIN w.nodes_ \ w.deleted_keys_
    IN {r \in SUBSET live :
           Cardinality(r) = IF Cardinality(live) < k THEN Cardinality(live) ELSE k}

\* TransactionManager::search: no transaction, no lock, no mutex_
FgSearch(c) ==
    /\ tm_threads[c].pc = "idle" /\ blocked[c] = NoCall
    /\ \E k \in 1..Cardinality(Keys) :
          \E results \in KVStore_search_vectors(World, k) :
             last' = [op |-> "search", k |-> k, results |-> results]
    /\ SetWorld(World)
    /\ UNCHANGED <<conn, blocked, committed, ghost, begun, lk_wait, casVars>>

\* the thread of c leaves queue.cv.wait and finishes its call
FgResume(c) == Resume(c)

\* the server started on an empty log file, no client connected yet
TxnInit ==
    /\ LET w == ProcessStart(<<>>) IN
         /\ next_txn_id = w.next_txn_id
         /\ transactions = w.transactions
         /\ index_ = w.index_
         /\ nodes_ = w.nodes_
         /\ deleted_keys_ = w.deleted_keys_
         /\ file = w.file
         /\ fail = w.fail
         /\ current_offset = w.current_offset
    /\ conn = [c \in Clients |-> NewConnection]
    /\ blocked = [c \in Clients |-> NoCall]
    /\ begun = 0
    /\ ghost = GhostInit
    /\ committed = [k \in StoreKeys |-> NotFound]
    /\ last = [op |-> "start"]

\* ------------------------------------------------------------------------
\* CasPaxos (src/src/replication/caspaxos.cpp, header in src/unnamed/part_010)
\* ------------------------------------------------------------------------
\* the node id the instance is constructed with
NodeId == 1

\* std::optional: empty, or holding one value
None == <<>>
Some(v) == <<v>>
has_value(o) == o # None
ValueOf(o) == o[1]

Ballot(e, n) == [epoch |-> e, node_id |-> n]

\* Ballot::operator<
BallotLess(a, b) ==
    IF a.epoch # b.epoch THEN a.epoch < b.epoch ELSE a.node_id < b.node_id

\* the values clients use; "" is what del stores
Values == {"", "x", "y"}

\* the state of a CasPaxos instance
Node ==
    [replicas_ |-> replicas_, current_epoch_ |-> current_epoch_,
     highest_ballot_ |-> highest_ballot_, values_ |-> values_]

SetNode(n) ==
    /\ replicas_' = n.replicas_
    /\ current_epoch_' = n.current_epoch_
    /\ highest_ballot_' = n.highest_ballot_
    /\ values_' = n.values_

\* CasPaxos(node_id, replicas): proposer_ at epoch 1, acceptor_ at ballot (0, node_id)
NewNode(nreplicas) ==
    [replicas_ |-> nreplicas, current_epoch_ |-> 1,
     highest_ballot_ |-> Ballot(0, NodeId), values_ |-> <<>>]

get_quorum_size(n) == ((n.replicas_ + 1) \div 2) + 1

\* uint64_t arithmetic wraps
EpochModulus == 2 ^ EpochBits

\* ProposerState::get_next_ballot: Ballot(current_epoch_++, node_id_)
get_next_ballot(n) ==
    [ballot |-> Ballot(n.current_epoch_, NodeId),
     n |-> [n EXCEPT !.current_epoch_ = (@ + 1) % EpochModulus]]

update_ballot_Ignore(n, ballot) == n

\* ProposerState::update_ballot
update_ballot(n, ballot) ==
    IF ballot.epoch >= n.current_epoch_
      THEN [n EXCEPT !.current_epoch_ = (ballot.epoch + 1) % EpochModulus]
      ELSE n

handle_prepare_NoCasCheck(n, msg) ==
    IF BallotLess(msg.ballot, n.highest_ballot_)
      THEN [promise |-> None, n |-> n]
      ELSE [promise |-> Some([ballot |-> msg.ballot, key |-> msg.key,
                              highest_ballot |-> msg.ballot]),
            n |-> [n EXCEPT !.highest_ballot_ = msg.ballot]]

handle_prepare_EraseOnMismatch(n, msg) ==
    IF BallotLess(msg.ballot, n.highest_ballot_)
      THEN [promise |-> None, n |-> n]
      ELSE LET n1 == [n EXCEPT !.highest_ballot_ = msg.ballot] IN
           IF has_value(msg.old_value)
                /\ (msg.key \notin DOMAIN n.values_
                      \/ n.values_[msg.key].value # ValueOf(msg.old_value))
             THEN [promise |-> None, n |-> [n1 EXCEPT !.values_ = MapErase(@, msg.key)]]
             ELSE [promise |-> Some([ballot |-> msg.ballot, key |-> msg.key,
                                     highest_ballot |-> n1.highest_ballot_]),
                   n |-> n1]

handle_prepare_NoBallotCheck(n, msg) ==
    LET n1 == [n EXCEPT !.highest_ballot_ = msg.ballot] IN
    IF has_value(msg.old_value)
         /\ (msg.key \notin DOMAIN n.values_
               \/ n.values_[msg.key].value # ValueOf(msg.old_value))
      THEN [promise |-> None, n |-> n1]
      ELSE [promise |-> Some([ballot |-> msg.ballot, key |-> msg.key,
                              highest_ballot |-> n1.highest_ballot_]),
            n |-> n1]

\* AcceptorState::handle_prepare: the promise (or nullopt) and the acceptor after it
handle_prepare(n, msg) ==
    IF BallotLess(msg.ballot, n.highest_ballot_)
      THEN [promise |-> None, n |-> n]
      ELSE LET n1 == [n EXCEPT !.highest_ballot_ = msg.ballot] IN
           IF has_value(msg.old_value)
                /\ (msg.key \notin DOMAIN n.values_
                      \/ n.values_[msg.key].value # ValueOf(msg.old_value))
             THEN [promise |-> None, n |-> n1]
             ELSE [promise |-> Some([ballot |-> msg.ballot, key |-> msg.key,
                                     highest_ballot |-> n1.highest_ballot_]),
                   n |-> n1]

handle_commit_KeepFirst(n, msg) ==
    IF BallotLess(msg.ballot, n.highest_ballot_)
      THEN [success |-> FALSE, n |-> n]
      ELSE [success |-> TRUE,
            n |-> IF msg.key \in DOMAIN n.values_ THEN n
                  ELSE [n EXCEPT !.values_ =
                          MapPut(@, msg.key, [ballot |-> msg.ballot, value |-> msg.value,
                                              committed |-> TRUE])]]

handle_commit_InitialBallot(n, msg) ==
    IF BallotLess(msg.ballot, n.highest_ballot_)
      THEN [success |-> FALSE, n |-> n]
      ELSE [success |-> TRUE,
            n |-> [n EXCEPT !.values_ =
                     MapPut(@, msg.key, [ballot |-> Ballot(0, NodeId), value |-> msg.value,
                                         committed |-> TRUE])]]

handle_commit_NoBallotCheck(n, msg) ==
    [success |-> TRUE,
     n |-> [n EXCEPT !.values_ =
              MapPut(@, msg.key, [ballot |-> msg.ballot, value |-> msg.value,
                                  committed |-> TRUE])]]

\* AcceptorState::handle_commit: the ack and the acceptor after it
handle_commit(n, msg) ==
    IF BallotLess(msg.ballot, n.highest_ballot_)
      THEN [success |-> FALSE, n |-> n]
      ELSE [success |-> TRUE,
            n |-> [n EXCEPT !.values_ =
                     MapPut(@, msg.key, [ballot |-> msg.ballot, value |-> msg.value,
                                         committed |-> TRUE])]]

\* send_prepare / send_commit: placeholders that return no replies
send_prepare(msg) == <<>>
send_commit(msg) == <<>>

\* CasPaxos::get over AcceptorState::get_value
CasPaxos_get(n, key) ==
    IF key \in DOMAIN n.values_ /\ n.values_[key].committed
      THEN Some(n.values_[key].value)
      ELSE None

\* CasPaxos::cas, phase 1 (PREPARE): whether the round goes on, and the instance after it
cas_prepare(n, prepare) ==
    LET lp == handle_prepare(n, prepare) IN
    IF ~has_value(lp.promise) THEN [ok |-> FALSE, n |-> lp.n]
    ELSE LET promises == Append(send_prepare(prepare), ValueOf(lp.promise)) IN
      IF Len(promises) < get_quorum_size(lp.n) THEN [ok |-> FALSE, n |-> lp.n]
      ELSE IF \E i \in 1..Len(promises) :
                 BallotLess(prepare.ballot, promises[i].highest_ballot)
        THEN [ok |-> FALSE,
              n |-> update_ballot(lp.n,
                      promises[CHOOSE i \in 1..Len(promises) :
                         /\ BallotLess(prepare.ballot, promises[i].highest_ballot)
                         /\ \A j \in 1..(i - 1) :
                              ~BallotLess(prepare.ballot, promises[j].highest_ballot)
                      ].highest_ballot)]
        ELSE [ok |-> TRUE, n |-> lp.n]

\* CasPaxos::cas, phase 2 (COMMIT): what cas returns, and the instance after it
cas_commit(n, commit) ==
    LET la == handle_commit(n, commit) IN
    IF ~la.success THEN [ret |-> FALSE, n |-> la.n]
    ELSE LET acks == Append(send_commit(commit), [success |-> la.success])
             success_count == Cardinality({i \in 1..Len(acks) : acks[i].success})
         IN [ret |-> success_count >= get_quorum_size(la.n), n |-> la.n]

PrepareMessage(ballot, key, old_value, new_value) ==
    [ballot |-> ballot, key |-> key, old_value |-> old_value, new_value |-> new_value]

CommitMessage(ballot, key, value) == [ballot |-> ballot, key |-> key, value |-> value]

\* CasPaxos::cas run without interruption: what it returns, the phase it ended
\* in, the ballot it used, and the instance after it
CasPaxos_cas(n, key, old_value, new_value) ==
    LET b == get_next_ballot(n)
        p == cas_prepare(b.n, PrepareMessage(b.ballot, key, old_value, new_value))
    IN IF ~p.ok
         THEN [ret |-> FALSE, phase |-> "PREPARE", ballot |-> b.ballot, n |-> p.n]
         ELSE LET c == cas_commit(p.n, CommitMessage(b.ballot, key, new_value)) IN
              [ret |-> c.ret, phase |-> "COMMIT", ballot |-> b.ballot, n |-> c.n]

\* the acceptor's part of an instance
AcceptorOf(n) == [highest_ballot_ |-> n.highest_ballot_, values_ |-> n.values_]

\* history: the round that returned true for a key most recently
Won(won, key, ret, ballot, value) ==
    IF ret THEN MapPut(won, key, [ballot |-> ballot, value |-> value]) ELSE won

\* a cas call by the application, and the history of it
CallCas(key, old_value, new_value) ==
    /\ current_epoch_ <= MaxEpoch
    /\ LET r == CasPaxos_cas(Node, key, old_value, new_value) IN
         /\ SetNode(r.n)
         /\ cas_last' = [op |-> "cas", key |-> key, old_value |-> old_value,
                         new_value |-> new_value, ret |-> r.ret, phase |-> r.phase,
                         before |-> CasPaxos_get(Node, key)]
         /\ cas_won' = Won(cas_won, key, r.ret, r.ballot, new_value)
    /\ cas_prev' = cas_last
    /\ cas_before' = AcceptorOf(Node)
    /\ UNCHANGED <<locks, txn_locks, lk_wait, txnVars, cas_threads, unitVars>>

\* CasPaxos::cas with an expected old value
Cas == \E key \in Keys, old \in Values, new \in Values : CallCas(key, Some(old), new)

\* CasPaxos::set
Set == \E key \in Keys, value \in Values : CallCas(key, None, value)

\* CasPaxos::del
Del ==
    \E key \in Keys :
       \/ CallCas(key, None, "")
       \/ \E old \in Values : CallCas(key, Some(old), "")

NoCas == [op |-> "none"]

\* the threads of SpecCasConc; each calls cas once
CasThreads == 1..NumCasThreads

\* a thread that has not called cas yet
IdleThread ==
    [pc |-> "idle", ballot |-> Ballot(0, 0), new_value |-> "", phase |-> "PREPARE",
     ret |-> FALSE]

\* the node ids ballots of other proposers carry
NodeIds == {1, 2}

\* the larger of an optional ballot and a ballot
MaxBallot(o, b) == IF has_value(o) /\ BallotLess(b, ValueOf(o)) THEN o ELSE Some(b)

\* history of the proposer: no call yet
NoProposerCall ==
    [op |-> "none", ballot |-> Ballot(0, 0), issued |-> None, passed |-> None,
     wrapped |-> FALSE]

\* the highest ballot get_next_ballot has returned so far, the last call included
IssuedSoFar ==
    IF proposer_log.op = "get_next_ballot"
      THEN MaxBallot(proposer_log.issued, proposer_log.ballot)
      ELSE proposer_log.issued

\* the highest ballot update_ballot was given so far, the last call included
PassedSoFar ==
    IF proposer_log.op = "update_ballot"
      THEN MaxBallot(proposer_log.passed, proposer_log.ballot)
      ELSE proposer_log.passed

\* a thread calls ProposerState::get_next_ballot (one critical section)
GetNextBallot ==
    /\ LET b == get_next_ballot(Node) IN
         /\ SetNode(b.n)
         /\ proposer_log' =
              [op |-> "get_next_ballot", ballot |-> b.ballot, issued |-> IssuedSoFar,
               passed |-> PassedSoFar,
               wrapped |-> proposer_log.wrapped \/ current_epoch_ + 1 >= EpochModulus]
    /\ UNCHANGED <<locks, txn_locks, lk_wait, txnVars, cas_last, cas_prev, cas_threads,
                   cas_won, cas_before, acc_last, log_hist, hnsw, hnsw_hist,
                   tm_threads, tm_mutex>>

\* a thread calls ProposerState::update_ballot(B) (one critical section)
UpdateBallot ==
    /\ \E e \in 0..(EpochModulus - 1), nid \in NodeIds :
         /\ SetNode(update_ballot(Node, Ballot(e, nid)))
         /\ proposer_log' =
              [op |-> "update_ballot", ballot |-> Ballot(e, nid), issued |-> IssuedSoFar,
               passed |-> PassedSoFar,
               wrapped |-> proposer_log.wrapped
                             \/ (e >= current_epoch_ /\ e + 1 >= EpochModulus)]
    /\ UNCHANGED <<locks, txn_locks, lk_wait, txnVars, cas_last, cas_prev, cas_threads,
                   cas_won, cas_before, acc_last, log_hist, hnsw, hnsw_hist,
                   tm_threads, tm_mutex>>

\* history of the acceptor: no message yet
NoMessage == [op |-> "none", ballot |-> Ballot(0, 0), ok |-> FALSE]

\* the values the messages of SpecAcceptor carry
MessageValues == {"x", "y"}

\* a PREPARE message reaches the acceptor: AcceptorState::handle_prepare
HandlePrepare ==
    /\ \E e \in 0..MaxMsgEpoch, nid \in NodeIds, key \in Keys, new_value \in MessageValues :
         \E old_value \in {None} \cup {Some(v) : v \in MessageValues} :
            LET r == handle_prepare(Node, PrepareMessage(Ballot(e, nid), key, old_value,
                                                         new_value))
            IN /\ SetNode(r.n)
               /\ acc_last' = [op |-> "PREPARE", ballot |-> Ballot(e, nid),
                               ok |-> has_value(r.promise)]
    /\ UNCHANGED <<locks, txn_locks, lk_wait, txnVars, cas_last, cas_prev, cas_threads,
                   cas_won, cas_before, proposer_log, log_hist, hnsw, hnsw_hist,
                   tm_threads, tm_mutex>>

\* a COMMIT message reaches the acceptor: AcceptorState::handle_commit
HandleCommitMessage ==
    /\ \E e \in 0..MaxMsgEpoch, nid \in NodeIds, key \in Keys, value \in MessageValues :
         LET r == handle_commit(Node, CommitMessage(Ballot(e, nid), key, value))
         IN /\ SetNode(r.n)
            /\ acc_last' = [op |-> "COMMIT", ballot |-> Ballot(e, nid), ok |-> r.success]
    /\ UNCHANGED <<locks, txn_locks, lk_wait, txnVars, cas_last, cas_prev, cas_threads,
                   cas_won, cas_before, proposer_log, log_hist, hnsw, hnsw_hist,
                   tm_threads, tm_mutex>>

\* ------------------------------------------------------------------------
\* An AppendLog used on its own
\* ------------------------------------------------------------------------
\* history of the log: no call yet
NoLogCall ==
    [op |-> "none", ok |-> TRUE, offset |-> 0, record |-> DefaultRecord, records |-> <<>>,
     before |-> <<>>, appended |-> <<>>]

\* the AppendLog object
Log == [file |-> file, fail |-> fail, current_offset |-> current_offset]

SetLog(w) ==
    /\ file' = w.file
    /\ fail' = w.fail
    /\ current_offset' = w.current_offset

\* the variables a call on the log leaves alone
notLogVars == <<locks, txn_locks, lk_wait, storeVars, casCoreVars, proposer_log, acc_last,
                hnsw, hnsw_hist, tm_threads, tm_mutex>>

\* the payloads of the records appended in SpecLog: strings and float vectors
LogValues == {"", "x"}

\* AppendLog::append of a string or a vector record
LogAppend ==
    /\ Len(log_hist.appended) < MaxAppends
    /\ \E type \in {"INSERT", "COMMIT"}, tid \in {1}, key \in StoreKeys, ts \in {1} :
         \E is_vector \in BOOLEAN, value \in LogValues, vec \in Vectors :
            /\ (is_vector => value = "")
            /\ (~is_vector => vec = CHOOSE v \in Vectors : TRUE)
            /\ LET record == IF is_vector THEN VectorLogRecord(type, tid, key, vec, ts)
                                          ELSE StringLogRecord(type, tid, key, value, ts)
                   a == AppendLog_append(Log, record)
               IN /\ SetLog(a.w)
                  /\ log_hist' = [op |-> "append", ok |-> TRUE, offset |-> a.offset,
                                  record |-> record, records |-> <<>>, before |-> file,
                                  appended |-> Append(log_hist.appended,
                                                      [record |-> record,
                                                       offset |-> a.offset])]
    /\ UNCHANGED notLogVars

\* AppendLog::read at an offset an append returned, or at the end of the log,
\* into a default-constructed record
LogRead ==
    /\ \E offset \in {log_hist.appended[i].offset : i \in 1..Len(log_hist.appended)}
                      \cup {current_offset} :
         LET r == AppendLog_read(Log, offset, DefaultRecord) IN
           /\ SetLog(r.w)
           /\ log_hist' = [log_hist EXCEPT !.op = "read", !.ok = r.ok, !.offset = offset,
                                           !.record = r.record, !.records = <<>>,
                                           !.before = file]
    /\ UNCHANGED notLogVars

\* AppendLog::read_all
LogReadAll ==
    /\ LET r == AppendLog_read_all(Log) IN
         /\ SetLog(r.w)
         /\ log_hist' = [log_hist EXCEPT !.op = "read_all", !.ok = TRUE, !.offset = 0,
                                         !.record = DefaultRecord, !.records = r.records,
                                         !.before = file]
    /\ UNCHANGED notLogVars

\* AppendLog::sync
LogSync ==
    /\ SetLog(AppendLog_sync(Log))
    /\ log_hist' = [log_hist EXCEPT !.op = "sync", !.ok = TRUE, !.offset = 0,
                                    !.record = DefaultRecord, !.records = <<>>,
                                    !.before = file]
    /\ UNCHANGED notLogVars

\* AppendLog::checkpoint
LogCheckpoint ==
    /\ SetLog(AppendLog_checkpoint(Log))
    /\ log_hist' = [log_hist EXCEPT !.op = "checkpoint", !.ok = TRUE, !.offset = 0,
                                    !.record = DefaultRecord, !.records = <<>>,
                                    !.before = file]
    /\ UNCHANGED notLogVars

\* ------------------------------------------------------------------------
\* SpecHnsw: one HNSW index, its public methods called one at a time (every
\* method runs under mutex_)
\* ------------------------------------------------------------------------
HnswKeys == {"a", "b", "c"}

\* the data set the clients index: every key has its own point, and the
\* queries are one of the points and a point half way between two of them
Coordinate(key) == IF key = "a" THEN 1 ELSE IF key = "b" THEN 2 ELSE 4
VectorOf(key) == [i \in 1..Dim |-> Coordinate(key)]
QueryVectors == {[i \in 1..Dim |-> x] : x \in {1, 3}}

\* the orders in which a call can find the elements of its unordered_sets:
\* two of them, one the reverse of the other
Orders == {<<"a", "b", "c">>, <<"c", "b", "a">>}

\* the k and ef_search arguments of search
SearchKs == {1, 2}
EfSearches == {1, 3}

\* inserted: key -> the vector of the first insert of the key; removed: the
\* keys a remove returned true for
NoHnswCall == [op |-> "", key |-> "", vector |-> <<>>, k |-> 0, ef_search |-> 0,
               results |-> <<>>, found |-> NotFound, inserted |-> <<>>, removed |-> {}]

notHnswVars == <<locks, txn_locks, lk_wait, txnVars, casCoreVars, proposer_log, acc_last,
                 log_hist, tm_threads, tm_mutex>>

\* HNSW::insert
HnswInsert ==
    /\ \E key \in HnswKeys, level \in 0..MaxLevel, ord \in Orders :
        LET vector == VectorOf(key) IN
          /\ hnsw' = insert(hnsw, key, vector, 0, level, ord)
          /\ hnsw_hist' = [NoHnswCall EXCEPT !.op = "insert", !.key = key, !.vector = vector,
                               !.inserted = IF key \in DOMAIN hnsw_hist.inserted
                                              THEN hnsw_hist.inserted
                                              ELSE MapPut(hnsw_hist.inserted, key, vector),
                               !.removed = hnsw_hist.removed]
    /\ UNCHANGED notHnswVars

\* HNSW::search
HnswSearch ==
    /\ \E query \in QueryVectors, k \in SearchKs, ef_search \in EfSearches, ord \in Orders :
          hnsw_hist' = [NoHnswCall EXCEPT !.op = "search", !.vector = query, !.k = k,
                            !.ef_search = ef_search,
                            !.results = search(hnsw, query, k, ef_search, ord),
                            !.inserted = hnsw_hist.inserted,
                            !.removed = hnsw_hist.removed]
    /\ UNCHANGED <<hnsw, notHnswVars>>

\* HNSW::get
HnswGet ==
    /\ \E key \in HnswKeys :
          hnsw_hist' = [NoHnswCall EXCEPT !.op = "get", !.key = key,
                            !.found = get(hnsw, key),
                            !.inserted = hnsw_hist.inserted,
                            !.removed = hnsw_hist.removed]
    /\ UNCHANGED <<hnsw, notHnswVars>>

\* HNSW::remove
HnswRemove ==
    /\ \E key \in HnswKeys :
          LET r == remove(hnsw, key) IN
            /\ hnsw' = r.h
            /\ hnsw_hist' = [NoHnswCall EXCEPT !.op = "remove", !.key = key,
                                 !.inserted = hnsw_hist.inserted,
                                 !.removed = IF r.ret THEN hnsw_hist.removed \cup {key}
                                                      ELSE hnsw_hist.removed]
    /\ UNCHANGED notHnswVars

\* the histories of the specifications of single classes: nothing called yet
UnitIdle ==
    /\ proposer_log = NoProposerCall
    /\ acc_last = NoMessage
    /\ log_hist = NoLogCall
    /\ hnsw = EmptyIndex
    /\ hnsw_hist = NoHnswCall
    /\ tm_threads = [c \in Clients |-> IdleTmThread]
    /\ tm_mutex = NoThread

\* no history yet, no thread inside cas
AuxIdle ==
    /\ UnitIdle
    /\ cas_last = NoCas
    /\ cas_prev = NoCas
    /\ cas_threads = [t \in CasThreads |-> IdleThread]
    /\ cas_won = <<>>
    /\ cas_before = AcceptorOf(NewNode(0))

CasIdle ==
    /\ replicas_ = 0
    /\ current_epoch_ = NewNode(0).current_epoch_
    /\ highest_ballot_ = NewNode(0).highest_ballot_
    /\ values_ = NewNode(0).values_
    /\ AuxIdle

\* The key and the committed value the threads of SpecCasConc race on: those
\* of the set() call that came before them.
Seeded == cas_last.op = "cas" /\ cas_last.ret
SeedKey == cas_last.key
SeedValue == cas_last.new_value

\* the main thread stores a value before the threads start: CasPaxos::set
Seed ==
    /\ cas_last = NoCas
    /\ \E key \in Keys, value \in Values : CallCas(key, None, value)

\* a thread enters cas(SeedKey, SeedValue, new_value): ProposerState::get_next_ballot
\* under the proposer's mutex
CasBegin(t) ==
    /\ Seeded
    /\ cas_threads[t].pc = "idle"
    /\ \E new_value \in Values \ {SeedValue} :
         LET b == get_next_ballot(Node) IN
           /\ SetNode(b.n)
           /\ cas_threads' = [cas_threads EXCEPT ![t] =
                  [pc |-> "prepare", ballot |-> b.ballot, new_value |-> new_value,
                   phase |-> "PREPARE", ret |-> FALSE]]
    /\ UNCHANGED <<locks, txn_locks, lk_wait, txnVars, cas_last, cas_prev, cas_won,
                   cas_before, unitVars>>

\* the thread's PREPARE phase: AcceptorState::handle_prepare under the acceptor's
\* mutex, then the checks on the promises, which touch only the thread's locals
CasPrepare(t) ==
    /\ cas_threads[t].pc = "prepare"
    /\ LET p == cas_prepare(Node, PrepareMessage(cas_threads[t].ballot, SeedKey,
                                                 Some(SeedValue), cas_threads[t].new_value))
       IN /\ SetNode(p.n)
          /\ cas_threads' = [cas_threads EXCEPT ![t].pc = IF p.ok THEN "commit" ELSE "done",
                                                ![t].phase = IF p.ok THEN "COMMIT" ELSE "PREPARE"]
    /\ UNCHANGED <<locks, txn_locks, lk_wait, txnVars, cas_last, cas_prev, cas_won,
                   cas_before, unitVars>>

\* the thread's COMMIT phase: AcceptorState::handle_commit under the acceptor's
\* mutex, then the count of the acks and the return
CasCommit(t) ==
    /\ cas_threads[t].pc = "commit"
    /\ LET c == cas_commit(Node, CommitMessage(cas_threads[t].ballot, SeedKey,
                                               cas_threads[t].new_value))
       IN /\ SetNode(c.n)
          /\ cas_threads' = [cas_threads EXCEPT ![t].pc = "done", ![t].ret = c.ret]
          /\ cas_won' = Won(cas_won, SeedKey, c.ret, cas_threads[t].ballot,
                            cas_threads[t].new_value)
    /\ UNCHANGED <<locks, txn_locks, lk_wait, txnVars, cas_last, cas_prev, cas_before,
                   unitVars>>

\* ------------------------------------------------------------------------
\* SpecLock: transactions calling the lock manager directly.  A transaction
\* is one thread: while it is blocked in acquire_lock it calls nothing else.
\* ------------------------------------------------------------------------
LockInit ==
    /\ locks = <<>>
    /\ txn_locks = [t \in AllTxnIds |-> {}]
    /\ lk_wait = [t \in LockTxns |-> ""]

LkAcquire(t, key, mode) ==
    /\ lk_wait[t] = ""
    /\ LET r == acquire_lock_enter(locks, txn_locks, t, key, mode) IN
         /\ locks' = r.locks
         /\ txn_locks' = r.txn_locks
         /\ lk_wait' = [lk_wait EXCEPT ![t] = IF r.granted THEN "" ELSE key]
    /\ UNCHANGED <<txnVars, casVars>>

LkWake(t) ==
    /\ lk_wait[t] # ""
    /\ wait_over(locks, t, lk_wait[t])
    /\ LET r == acquire_lock_leave(locks, txn_locks, t, lk_wait[t]) IN
         /\ locks' = r.locks
         /\ txn_locks' = r.txn_locks
    /\ lk_wait' = [lk_wait EXCEPT ![t] = ""]
    /\ UNCHANGED <<txnVars, casVars>>

LkRelease(t, key) ==
    /\ lk_wait[t] = ""
    /\ LET r == release_lock(locks, txn_locks, t, key) IN
         /\ locks' = r.locks
         /\ txn_locks' = r.txn_locks
    /\ UNCHANGED <<lk_wait, txnVars, casVars>>

LkReleaseAll(t) ==
    /\ lk_wait[t] = ""
    /\ LET r == release_all_locks(locks, txn_locks, t) IN
         /\ locks' = r.locks
         /\ txn_locks' = r.txn_locks
    /\ UNCHANGED <<lk_wait, txnVars, casVars>>

LockNext ==
    \/ \E t \in LockTxns, key \in Keys, mode \in Modes : LkAcquire(t, key, mode)
    \/ \E t \in LockTxns : LkWake(t)
    \/ \E t \in LockTxns, key \in Keys : LkRelease(t, key)
    \/ \E t \in LockTxns : LkReleaseAll(t)

Init == LockInit /\ TxnInit /\ CasIdle

SpecLock == Init /\ [][LockNext]_vars

\* SpecLockFair: the same calls under a fair scheduler.  A thread whose wait
\* predicate has become true was notified (grant_locks ends with notify_all)
\* and is eventually run; a transaction that can call release_all_locks
\* eventually does.
LockFairness ==
    /\ \A t \in LockTxns : WF_vars(LkWake(t))
    /\ \A t \in LockTxns : WF_vars(LkReleaseAll(t))

SpecLockFair == Init /\ [][LockNext]_vars /\ LockFairness

\* SpecLockOrdered: every transaction takes its keys in the one global order
\* of the keys (KeyRank), each key once, and gives all of them back together
\* (commit or rollback); the scheduler is fair as in SpecLockFair.
LkAcquireInOrder(t, key, mode) ==
    /\ \A held \in KeysOf(txn_locks, t) : KeyRank(held) < KeyRank(key)
    /\ LkAcquire(t, key, mode)

LockOrderedNext ==
    \/ \E t \in LockTxns, key \in Keys, mode \in Modes : LkAcquireInOrder(t, key, mode)
    \/ \E t \in LockTxns : LkWake(t)
    \/ \E t \in LockTxns : LkReleaseAll(t)

SpecLockOrdered == Init /\ [][LockOrderedNext]_vars /\ LockFairness

HnswNext ==
    \/ HnswInsert
    \/ HnswSearch
    \/ HnswGet
    \/ HnswRemove

SpecHnsw == Init /\ [][HnswNext]_vars

\* ------------------------------------------------------------------------
\* SpecTxn: clients talking to one server process that may be killed and
\* restarted.
\* ------------------------------------------------------------------------
TxnNext ==
    \/ \E c \in Clients : HandleBegin(c)
    \/ \E c \in Clients : HandleGet(c)
    \/ \E c \in Clients : HandleInsert(c)
    \/ \E c \in Clients : HandleDelete(c)
    \/ \E c \in Clients : HandleCommit(c)
    \/ \E c \in Clients : HandleRollback(c)
    \/ \E c \in Clients : Resume(c)
    \/ Restart

SpecTxn == Init /\ [][TxnNext]_vars

\* ------------------------------------------------------------------------
\* SpecTm: threads calling the TransactionManager of one server process
\* directly, with transaction ids that are active, finished or never begun.
\* ------------------------------------------------------------------------
TmNext ==
    \/ \E c \in Clients : TmBegin(c)
    \/ \E c \in Clients : TmCall(c)
    \/ \E c \in Clients : TmCommit(c)
    \/ \E c \in Clients : TmRollback(c)
    \/ \E c \in Clients : Resume(c)

SpecTm == Init /\ [][TmNext]_vars

\* ------------------------------------------------------------------------
\* SpecDisconnect: clients of one server process that work in explicit
\* transactions and whose connections may end at any time between two
\* commands.  A thread that waits in acquire_lock runs again once its request
\* is granted (release notifies the queue's condition variable), hence the
\* weak fairness of Resume.
\* ------------------------------------------------------------------------
DisconnectNext ==
    \/ \E c \in Clients : begun < MaxTmTxns /\ HandleBegin(c)
    \/ \E c \in Clients : conn[c].in_transaction_ /\ HandleGet(c)
    \/ \E c \in Clients : conn[c].in_transaction_ /\ HandleInsert(c)
    \/ \E c \in Clients : conn[c].in_transaction_ /\ HandleDelete(c)
    \/ \E c \in Clients : HandleCommit(c)
    \/ \E c \in Clients : HandleRollback(c)
    \/ \E c \in Clients : Resume(c)
    \/ \E c \in Clients : Disconnect(c)

SpecDisconnect ==
    Init /\ [][DisconnectNext]_vars /\ \A c \in Clients : WF_vars(Resume(c))

\* ------------------------------------------------------------------------
\* SpecTmConc: the connection threads of one server process interleaved inside
\* begin_transaction, read, write, remove, commit_transaction and search.
\* ------------------------------------------------------------------------
TmConcNext ==
    \/ \E c \in Clients : FgBeginLock(c)
    \/ \E c \in Clients : FgBeginInsert(c)
    \/ \E c \in Clients : FgLookup(c)
    \/ \E c \in Clients : FgCall(c)
    \/ \E c \in Clients : FgCommitLock(c)
    \/ \E c \in Clients : FgCommitPut(c)
    \/ \E c \in Clients : FgCommitLog(c)
    \/ \E c \in Clients : FgCommitErase(c)
    \/ \E c \in Clients : FgSearch(c)
    \/ \E c \in Clients : FgResume(c)

SpecTmConc == Init /\ [][TmConcNext]_vars

\* ------------------------------------------------------------------------
\* C1. Lock mutual exclusion: every key has either at most one exclusive
\* holder and no shared holders, or shared holders and no exclusive holder.
\* ------------------------------------------------------------------------
C1_MutualExclusion ==
    \A key \in DOMAIN locks :
        \/ locks[key].holders_shared = {}
        \/ locks[key].holder_exclusive = NoHolder

\* two shared holders on one key while an exclusive request waits behind them
C1_Witness ==
    \E key \in DOMAIN locks :
        /\ Cardinality(locks[key].holders_shared) >= 2
        /\ \E i \in 1..Len(locks[key].requests) :
              locks[key].requests[i].mode = "EXCLUSIVE"

\* ------------------------------------------------------------------------
\* SpecRecover: a server process is started on a log file found on disk.
\* ------------------------------------------------------------------------
\* transaction ids of the records of a log file
LogTxnIds == {1, 2}

\* the records a log file can hold, as serialize_record writes them: the vector
\* records of a vector-mode engine and the INSERT records of a string-mode one
LogRecords ==
    {serialize_record(VectorRecord("INSERT", t, k, v)) :
        t \in LogTxnIds, k \in Keys, v \in Vectors}
    \cup {serialize_record(VectorRecord("DELETE", t, k, <<>>)) : t \in LogTxnIds, k \in Keys}
    \cup {serialize_record(VectorRecord("COMMIT", t, "", <<>>)) : t \in LogTxnIds}
    \cup {serialize_record(StringLogRecord("INSERT", 1, k, "s", 0)) : k \in Keys}

LogFiles == UNION {[1..n -> LogRecords] : n \in 0..MaxLogLen}

\* the log file is on disk, the process not started yet
RecoverInit ==
    /\ LockInit
    /\ file \in LogFiles
    /\ fail = FALSE
    /\ current_offset = 0
    /\ next_txn_id = 1
    /\ transactions = <<>>
    /\ index_ = <<>>
    /\ nodes_ = <<>>
    /\ deleted_keys_ = {}
    /\ conn = [c \in Clients |-> NewConnection]
    /\ blocked = [c \in Clients |-> NoCall]
    /\ begun = 0
    /\ ghost = GhostInit
    /\ committed = [k \in StoreKeys |-> NotFound]
    /\ last = [op |-> "disk"]
    /\ CasIdle

\* the process starts: the KVStore constructor runs recover()
Recover ==
    /\ last.op = "disk"
    /\ SetWorld(ProcessStart(file))
    /\ last' = [op |-> "recover"]
    /\ UNCHANGED <<lk_wait, conn, blocked, begun, ghost, committed, casVars>>

RecoverNext == Recover

SpecRecover == RecoverInit /\ [][RecoverNext]_vars

\* ------------------------------------------------------------------------
\* SpecCas: one CasPaxos instance used sequentially by an application.
\* ------------------------------------------------------------------------
CasInit ==
    /\ LockInit
    /\ TxnInit
    /\ replicas_ \in 0..MaxReplicas
    /\ current_epoch_ = NewNode(replicas_).current_epoch_
    /\ highest_ballot_ = NewNode(replicas_).highest_ballot_
    /\ values_ = NewNode(replicas_).values_
    /\ AuxIdle

CasNext == Cas \/ Set \/ Del

SpecCas == CasInit /\ [][CasNext]_vars

\* ------------------------------------------------------------------------
\* SpecLog: an AppendLog opened on a new file and used through its public
\* methods.
\* ------------------------------------------------------------------------
LogInit ==
    /\ LockInit
    /\ CasIdle
    /\ LET w == ProcessStart(<<>>) IN
         /\ next_txn_id = w.next_txn_id
         /\ transactions = w.transactions
         /\ index_ = w.index_
         /\ nodes_ = w.nodes_
         /\ deleted_keys_ = w.deleted_keys_
    /\ conn = [c \in Clients |-> NewConnection]
    /\ blocked = [c \in Clients |-> NoCall]
    /\ begun = 0
    /\ ghost = GhostInit
    /\ committed = [k \in StoreKeys |-> NotFound]
    /\ last = [op |-> "start"]
    /\ file = <<>>
    /\ fail = FALSE
    /\ current_offset = FileSize(file)

LogNext == LogAppend \/ LogRead \/ LogReadAll \/ LogSync \/ LogCheckpoint

SpecLog == LogInit /\ [][LogNext]_vars

\* ------------------------------------------------------------------------
\* SpecTorn: an AppendLog opened on a file whose last write was cut short
\* ------------------------------------------------------------------------
\* the records of such a file, as serialize_record writes them
TornRecords ==
    {serialize_record(VectorLogRecord("INSERT", 1, k, v, 1)) : k \in StoreKeys, v \in Vectors}
    \cup {serialize_record(VectorLogRecord("DELETE", 1, k, <<>>, 1)) : k \in StoreKeys}
    \cup {serialize_record(VectorLogRecord("COMMIT", 1, "", <<>>, 1)),
          serialize_record(StringLogRecord("INSERT", 2, "", "x", 1))}

\* whole records, then a strict prefix of one more
TornFiles ==
    UNION {UNION {{Append(f, TornRecord(b, n)) : n \in 1..(b.size - 1)} : b \in TornRecords} :
              f \in UNION {[1..m -> TornRecords] : m \in 0..MaxComplete}}

\* AppendLog::AppendLog on that file: current_offset_ is the size of the file
TornInit ==
    /\ LockInit
    /\ CasIdle
    /\ LET w == ProcessStart(<<>>) IN
         /\ next_txn_id = w.next_txn_id
         /\ transactions = w.transactions
         /\ index_ = w.index_
         /\ nodes_ = w.nodes_
         /\ deleted_keys_ = w.deleted_keys_
    /\ conn = [c \in Clients |-> NewConnection]
    /\ blocked = [c \in Clients |-> NoCall]
    /\ begun = 0
    /\ ghost = GhostInit
    /\ committed = [k \in StoreKeys |-> NotFound]
    /\ last = [op |-> "start"]
    /\ file \in TornFiles
    /\ fail = FALSE
    /\ current_offset = FileSize(file)

TornNext == LogReadAll

SpecTorn == TornInit /\ [][TornNext]_vars

\* ------------------------------------------------------------------------
\* SpecProposer: threads calling get_next_ballot and update_ballot on one
\* ProposerState; both hold the proposer's mutex from entry to return.
\* ------------------------------------------------------------------------
ProposerNext == GetNextBallot \/ UpdateBallot

SpecProposer == Init /\ [][ProposerNext]_vars

\* ------------------------------------------------------------------------
\* SpecAcceptor: PREPARE and COMMIT messages with any ballot reaching one
\* AcceptorState in any order.
\* ------------------------------------------------------------------------
AcceptorNext == HandlePrepare \/ HandleCommitMessage

SpecAcceptor == Init /\ [][AcceptorNext]_vars

\* ------------------------------------------------------------------------
\* SpecCasConc: after a set(), several threads call cas on the same key with
\* the same expected value.  A step is one critical section of the proposer's
\* or the acceptor's mutex.
\* ------------------------------------------------------------------------
CasConcNext ==
    \/ Seed
    \/ \E t \in CasThreads : CasBegin(t)
    \/ \E t \in CasThreads : CasPrepare(t)
    \/ \E t \in CasThreads : CasCommit(t)

SpecCasConc == CasInit /\ [][CasConcNext]_vars

\* ------------------------------------------------------------------------
\* C2. Commit visibility: once commit has returned OK, every (k, v) of the
\* committed write set is what GET k answers.
\* ------------------------------------------------------------------------
C2_CommitVisibility ==
    (last.op = "commit" /\ last.ok) =>
       \A i \in 1..Len(last.write_set) :
          KVStore_get_vector(World, last.write_set[i].key)
             = Found(last.write_set[i].vector)

C4_AbortedInvisible ==
    (last.op = "rollback" /\ last.ok /\ last.snap.alone) =>
       Visible(World) = last.snap.store

\* ------------------------------------------------------------------------
\* C5. Durability: after a kill and restart, every key answers what it answered
\* after the last commit on it before the kill.
\* ------------------------------------------------------------------------
C5_Durability ==
    (last.op = "restart") => Visible(World) = last.committed

\* ------------------------------------------------------------------------
\* C6. Recovery applies only committed transactions: after recovery every key
\* answers what it answers when only the records of transactions whose COMMIT
\* record is in the log are replayed.
\* ------------------------------------------------------------------------
HasCommit(records, tid) ==
    \E i \in 1..Len(records) :
       records[i].type = "COMMIT" /\ records[i].transaction_id = tid

CommittedRecords(records) ==
    SelectSeq(records, LAMBDA r : HasCommit(records, r.transaction_id))

C6_RecoveryOnlyCommitted ==
    (last.op = "recover") =>
       LET records == read_records(file, DefaultRecord)
           expected == replay_records(
                         [index_ |-> <<>>, nodes_ |-> <<>>, deleted_keys_ |-> {}],
                         CommittedRecords(records), 1)
       IN \A k \in Keys : KVStore_get_vector(World, k) = KVStore_get_vector(expected, k)

\* ------------------------------------------------------------------------
\* C7. Isolation, no dirty reads: a read of a key the reader has not written
\* itself answers what the store answered after the last commit on that key.
\* ------------------------------------------------------------------------
C7_NoDirtyRead ==
    (last.op = "read" /\ ~last.own) => last.result = committed[last.key]

\* ------------------------------------------------------------------------
\* C8. Read-your-writes: a read by a transaction of a key in its own write set
\* completes without blocking: no read is ever left waiting for a lock on a key
\* its own transaction has written.
\* ------------------------------------------------------------------------
C8_ReadYourWrites ==
    \A c \in Clients :
       (blocked[c] # NoCall /\ blocked[c].op = "read") =>
          WritesOf(transactions[blocked[c].txn_id].write_set, blocked[c].key) = {}

\* ------------------------------------------------------------------------
\* C9. CAS precondition: on a single-node instance used sequentially,
\* cas(K, expected_old = V, new = W) returns success if and only if the committed
\* value of K is V; on success get(K) is W, on failure get(K) is what it was
\* before the call.
\* ------------------------------------------------------------------------
C9_CasPrecondition ==
    (cas_last.op = "cas" /\ has_value(cas_last.old_value) /\ replicas_ = 0) =>
       /\ cas_last.ret <=> (cas_last.before = cas_last.old_value)
       /\ cas_last.ret => CasPaxos_get(Node, cas_last.key) = Some(cas_last.new_value)
       /\ ~cas_last.ret => CasPaxos_get(Node, cas_last.key) = cas_last.before

C9_Witness ==
    /\ cas_last.op = "cas" /\ has_value(cas_last.old_value) /\ replicas_ = 0
    /\ cas_last.ret
    /\ cas_last.new_value # ValueOf(cas_last.old_value)

\* ------------------------------------------------------------------------
\* C10. After cas(K, V, W) has succeeded, the next cas(K, V, X) with the same
\* expected_old V fails, for every V, W and X.
\* ------------------------------------------------------------------------
SameExpectedAgain ==
    /\ cas_prev.op = "cas" /\ cas_last.op = "cas"
    /\ has_value(cas_prev.old_value) /\ cas_prev.ret
    /\ cas_last.key = cas_prev.key
    /\ cas_last.old_value = cas_prev.old_value

C10_SecondCasFails ==
    SameExpectedAgain => ~cas_last.ret

\* C10 as it holds: after cas(K, V, W) has succeeded with W different from V, the
\* next cas(K, V, X) fails, for every X.
C10_SecondCasFails_Amended ==
    (SameExpectedAgain /\ cas_prev.new_value # ValueOf(cas_prev.old_value)) => ~cas_last.ret

C10_Witness ==
    /\ SameExpectedAgain
    /\ cas_prev.new_value # ValueOf(cas_prev.old_value)
    /\ ~cas_last.ret

\* ------------------------------------------------------------------------
\* Claims on SpecCasConc
\* ------------------------------------------------------------------------
Winners == {t \in CasThreads : cas_threads[t].pc = "done" /\ cas_threads[t].ret}
AllReturned == \A t \in CasThreads : cas_threads[t].pc = "done"

\* C11: of the threads that call cas(K, V, W_i) at the same time while K's
\* committed value is V, at most one gets true, and once all have returned
\* get(K) is the new value of the one that got true.
C11_LinearizableCas ==
    /\ Cardinality(Winners) <= 1
    /\ AllReturned =>
         \A t \in Winners : CasPaxos_get(Node, SeedKey) = Some(cas_threads[t].new_value)

\* two threads were past PREPARE at once: one got true, the other was turned
\* down in COMMIT, and all have returned
C11_Witness ==
    /\ AllReturned
    /\ Winners # {}
    /\ \E t \in CasThreads \ Winners : cas_threads[t].phase = "COMMIT"

\* ------------------------------------------------------------------------
\* Claims on SpecProposer
\* ------------------------------------------------------------------------
ReturnedAboveEarlier ==
    /\ has_value(proposer_log.issued) =>
          BallotLess(ValueOf(proposer_log.issued), proposer_log.ballot)
    /\ has_value(proposer_log.passed) =>
          BallotLess(ValueOf(proposer_log.passed), proposer_log.ballot)

C13_AcceptorBallotGuard ==
    [][ /\ BallotLess(acc_last'.ballot, highest_ballot_) =>
              /\ ~acc_last'.ok
              /\ highest_ballot_' = highest_ballot_
              /\ values_' = values_
        /\ ~BallotLess(highest_ballot_', highest_ballot_) ]_vars

\* a COMMIT below the promised ballot was turned down while a value is stored
C13_Witness ==
    /\ acc_last.op = "COMMIT" /\ ~acc_last.ok
    /\ BallotLess(acc_last.ballot, highest_ballot_)
    /\ values_ # <<>>

\* ------------------------------------------------------------------------
\* Claims on SpecCas: what a finished cas leaves in the acceptor
\* ------------------------------------------------------------------------
\* C14: every key with a committed value carries the ballot and the new value
\* of the cas round that returned true for that key most recently.
C14_CommittedProvenance ==
    \A key \in DOMAIN values_ :
       values_[key].committed =>
          /\ key \in DOMAIN cas_won
          /\ values_[key].ballot = cas_won[key].ballot
          /\ values_[key].value = cas_won[key].value

\* a key was won twice, by rounds with different ballots, and a later round on
\* it failed
C14_Witness ==
    /\ cas_last.op = "cas" /\ ~cas_last.ret
    /\ cas_last.key \in DOMAIN values_
    /\ values_[cas_last.key].ballot.epoch > 1
    /\ BallotLess(values_[cas_last.key].ballot, highest_ballot_)
    /\ cas_prev.op = "cas" /\ cas_prev.ret /\ cas_prev.key = cas_last.key

\* C15: a cas round that fails in its PREPARE phase leaves the acceptor's
\* highest_ballot_ and every committed value as they were before the call.
C15_PrepareFailureKeepsState ==
    (cas_last.op = "cas" /\ ~cas_last.ret /\ cas_last.phase = "PREPARE") =>
       AcceptorOf(Node) = cas_before

\* C15, amended: a cas round that fails in its PREPARE phase leaves every
\* committed value as it was and does not lower highest_ballot_ (it may have
\* raised it to the round's ballot).
C15_PrepareFailureKeepsValues ==
    (cas_last.op = "cas" /\ ~cas_last.ret /\ cas_last.phase = "PREPARE") =>
       /\ values_ = cas_before.values_
       /\ ~BallotLess(highest_ballot_, cas_before.highest_ballot_)

\* a cas with an expected value failed its CAS check on a key that has a
\* committed value, and highest_ballot_ was raised by it
C15_Witness ==
    /\ cas_last.op = "cas" /\ ~cas_last.ret /\ cas_last.phase = "PREPARE"
    /\ replicas_ = 0
    /\ has_value(cas_last.old_value)
    /\ cas_last.key \in DOMAIN values_
    /\ BallotLess(cas_before.highest_ballot_, highest_ballot_)

\* ------------------------------------------------------------------------
\* Claims on SpecLog
\* ------------------------------------------------------------------------
IsPrefix(f, g) == Len(f) <= Len(g) /\ \A i \in 1..Len(f) : f[i] = g[i]

\* C16: whatever the sequence of append, read, read_all, sync and checkpoint,
\* the records in the log before a call are an unchanged prefix of the log
\* after it, and the offsets successive appends return are strictly increasing.
C16_AppendOnly ==
    /\ IsPrefix(log_hist.before, file)
    /\ \A i \in 1..Len(log_hist.appended) : \A j \in 1..(i - 1) :
          log_hist.appended[j].offset < log_hist.appended[i].offset

\* the log holds a record, a later append on the failed stream returned a
\* larger offset, and a call followed it
C16_Witness ==
    /\ Len(log_hist.appended) >= 2
    /\ Len(file) >= 1
    /\ Len(file) < Len(log_hist.appended)
    /\ log_hist.op \in {"read", "read_all", "sync", "checkpoint"}

\* equal in type, txn_id, timestamp, is_vector flag, key and payload
SameRecord(a, b) ==
    /\ a.type = b.type
    /\ a.transaction_id = b.transaction_id
    /\ a.timestamp = b.timestamp
    /\ a.is_vector = b.is_vector
    /\ a.key = b.key
    /\ IF b.is_vector THEN a.vector_data = b.vector_data ELSE a.value = b.value

\* C18: read at the offset append(r) returned succeeds with a record equal to
\* r, and read_all returns all the appended records in the order of the appends.
C18_LogRoundTrip ==
    /\ log_hist.op = "read" =>
          \A i \in 1..Len(log_hist.appended) :
             log_hist.appended[i].offset = log_hist.offset =>
                /\ log_hist.ok
                /\ SameRecord(log_hist.record, log_hist.appended[i].record)
    /\ log_hist.op = "read_all" =>
          /\ Len(log_hist.records) = Len(log_hist.appended)
          /\ \A i \in 1..Len(log_hist.appended) :
                SameRecord(log_hist.records[i], log_hist.appended[i].record)

\* ------------------------------------------------------------------------
\* Claims on SpecTxn: the records of a transaction in the log
\* ------------------------------------------------------------------------
\* C17: the COMMIT record of a committed transaction T is in the log after
\* every INSERT and DELETE record of T, and no record with T's id follows it.
C17_CommitRecordPlacement ==
    (last.op = "commit" /\ last.ok) =>
       \E i \in 1..Len(file) :
          /\ file[i].type = "COMMIT"
          /\ file[i].transaction_id = last.txn_id
          /\ \A j \in 1..Len(file) :
                (j # i /\ file[j].transaction_id = last.txn_id) =>
                   (j < i /\ file[j].type \in {"INSERT", "DELETE"})

\* ------------------------------------------------------------------------
\* Claims on SpecLock: acquisitions by a holder, and waiting writers
\* ------------------------------------------------------------------------
\* C19: a transaction that holds the exclusive lock on a key is never left
\* waiting by acquire on that key, in either mode, and a transaction that
\* holds a shared lock on a key is never left waiting by a shared acquire on it.
C19_ReentrantAcquire ==
    \A t \in LockTxns :
       lk_wait[t] # "" =>
          LET queue == locks[lk_wait[t]] IN
          \A i \in 1..Len(queue.requests) :
             (queue.requests[i].txn_id = t /\ ~queue.requests[i].granted) =>
                /\ queue.holder_exclusive # t
                /\ ~(t \in queue.holders_shared /\ queue.requests[i].mode = "SHARED")

\* the transactions whose exclusive request waits in a queue
WaitingExclusive(queue) ==
    {queue.requests[i].txn_id : i \in {j \in 1..Len(queue.requests) :
        queue.requests[j].mode = "EXCLUSIVE" /\ ~queue.requests[j].granted}}

\* the request of txn_id was queued ahead of the request of other
QueuedAhead(queue, txn_id, other) ==
    \E i, j \in 1..Len(queue.requests) :
       /\ i < j
       /\ queue.requests[i].txn_id = txn_id
       /\ queue.requests[j].txn_id = other

\* C20: while an exclusive request waits on a key, no step grants a shared
\* lock on that key to a request issued after it: a transaction that becomes
\* a shared holder while the exclusive request keeps waiting was queued ahead
\* of it.
C20_PendingWriterPriority ==
    [][ \A key \in DOMAIN locks \cap DOMAIN locks' :
          \A x \in WaitingExclusive(locks[key]) \cap WaitingExclusive(locks'[key]) :
             \A s \in locks'[key].holders_shared \ locks[key].holders_shared :
                QueuedAhead(locks[key], s, x) ]_vars

\* ------------------------------------------------------------------------
\* Claims on SpecLockFair
\* ------------------------------------------------------------------------
\* txn_id is a holder of key
Holds(txn_id, key) ==
    /\ key \in DOMAIN locks
    /\ \/ txn_id \in locks[key].holders_shared
       \/ locks[key].holder_exclusive = txn_id

\* an exclusive request of txn_id waits on key
WaitsExclusive(txn_id, key) ==
    /\ key \in DOMAIN locks
    /\ txn_id \in WaitingExclusive(locks[key])

\* every transaction that is granted a lock eventually releases it
EveryLockReleased == \A t \in LockTxns, key \in Keys : []<>(~Holds(t, key))

\* C21: provided every transaction that is granted a lock eventually releases
\* it, every waiting exclusive request is eventually granted, even when new
\* shared requests on the key keep arriving.
C21_StarvationFreeWrites ==
    EveryLockReleased =>
       \A t \in LockTxns, key \in Keys :
          WaitsExclusive(t, key) ~> ~WaitsExclusive(t, key)

\* ------------------------------------------------------------------------
\* Claims on SpecTxn: strict two-phase locking
\* ------------------------------------------------------------------------
\* txn_id is a holder of key in the lock table L
HoldsIn(L, txn_id, key) ==
    /\ key \in DOMAIN L
    /\ \/ txn_id \in L[key].holders_shared
       \/ L[key].holder_exclusive = txn_id

\* txn_id has a request in the queue of key in the lock table L
PendingIn(L, txn_id, key) ==
    /\ key \in DOMAIN L
    /\ \E i \in 1..Len(L[key].requests) : L[key].requests[i].txn_id = txn_id

\* C22: a transaction keeps every lock it holds for as long as it has neither
\* committed nor rolled back, and a transaction that has committed or rolled
\* back holds no key and has no request waiting on any key.
C22_StrictTwoPhaseLocking ==
    [][ /\ \A t \in DOMAIN transactions \cap DOMAIN transactions', key \in StoreKeys :
              HoldsIn(locks, t, key) => HoldsIn(locks', t, key)
        /\ \A t \in TxnIds \ DOMAIN transactions', key \in StoreKeys :
              ~HoldsIn(locks', t, key) /\ ~PendingIn(locks', t, key) ]_vars

\* a transaction that wrote a key under the exclusive lock has committed, and
\* a transaction that waited for that key holds it now
C22_Witness ==
    /\ last.op = "commit" /\ last.ok
    /\ last.txn_id \notin DOMAIN transactions
    /\ last.write_set # <<>>
    /\ \E t \in DOMAIN transactions, key \in StoreKeys :
          HoldsIn(locks, t, key) /\ PendingIn(locks, t, key)

\* ------------------------------------------------------------------------
\* Claims on SpecLockOrdered
\* ------------------------------------------------------------------------
\* C23: when all transactions take their locks in one global key order and
\* every transaction that has its locks eventually commits or rolls back,
\* every acquire eventually returns.
C23_OrderedAcquireReturns ==
    \A t \in LockTxns : (lk_wait[t] # "") ~> (lk_wait[t] = "")

\* ------------------------------------------------------------------------
\* Claims on SpecHnsw
\* ------------------------------------------------------------------------
Neighbors(h, key, lc) ==
    IF key \in DOMAIN h.nodes_ /\ lc < Len(h.nodes_[key].neighbors)
      THEN h.nodes_[key].neighbors[lc + 1]
      ELSE {}

\* C24: the edges of every level are symmetric: k is a neighbor of j at
\* level L iff j is a neighbor of k at level L.
C24_EdgeSymmetry ==
    \A lc \in 0..MaxLevel, j, k \in HnswKeys :
        k \in Neighbors(hnsw, j, lc) <=> j \in Neighbors(hnsw, k, lc)

LiveKeys(h) == DOMAIN h.nodes_ \ h.deleted_keys_

\* C25: on a non-empty index the entry point is not tombstoned and no
\* current node has a higher max_level than the entry point.
C25_EntryPointInvariant ==
    LiveKeys(hnsw) # {} =>
        /\ hnsw.entry_point_ \in LiveKeys(hnsw)
        /\ \A key \in LiveKeys(hnsw) :
              hnsw.nodes_[key].max_level <= hnsw.nodes_[hnsw.entry_point_].max_level

\* the live keys reachable from the keys of S over layer-0 edges between live keys
RECURSIVE Reach0(_, _)
Reach0(h, S) ==
    LET next == S \cup {k \in LiveKeys(h) : \E j \in S : k \in Neighbors(h, j, 0)}
    IN IF next = S THEN S ELSE Reach0(h, next)

Connected0(h) == \A j \in LiveKeys(h) : Reach0(h, {j}) = LiveKeys(h)

\* how many live keys are strictly nearer to the query than distance d
NearerThan(h, query, d) ==
    Cardinality({k \in LiveKeys(h) : compute_distance(query, h.nodes_[k].vector) < d})

\* C26: a search returns its results in non-decreasing distance, and when
\* the index holds at most ef_search live nodes, all connected at layer 0,
\* the results are the k nearest live nodes.
C26_KnnResultOrder ==
    hnsw_hist.op = "search" =>
        LET results == hnsw_hist.results
            n == Cardinality(LiveKeys(hnsw))
        IN /\ \A i \in 1..(Len(results) - 1) : results[i].distance <= results[i + 1].distance
           /\ (n <= hnsw_hist.ef_search /\ Connected0(hnsw)) =>
                 /\ Len(results) = (IF hnsw_hist.k < n THEN hnsw_hist.k ELSE n)
                 /\ \A i \in 1..Len(results) :
                       /\ results[i].key \in LiveKeys(hnsw)
                       /\ NearerThan(hnsw, hnsw_hist.vector, results[i].distance) < i

\* what get must answer for a key, by the inserts and removes made so far
Expected(key) ==
    IF key \in DOMAIN hnsw_hist.inserted /\ key \notin hnsw_hist.removed
      THEN Found(hnsw_hist.inserted[key])
      ELSE NotFound

\* C27: get finds a key, with the vector it was inserted with, exactly when
\* the key has been inserted and not removed; a removed key is never found
\* again and is in no search result, whatever is searched or inserted later.
C27_TombstonesHideKeys ==
    /\ \A key \in HnswKeys : get(hnsw, key) = Expected(key)
    /\ hnsw_hist.op = "get" => hnsw_hist.found = Expected(hnsw_hist.key)
    /\ hnsw_hist.op = "search" =>
          \A i \in 1..Len(hnsw_hist.results) :
              hnsw_hist.results[i].key \notin hnsw_hist.removed

\* a search that starts at a tombstoned entry point and still has results
C27_Witness ==
    /\ hnsw_hist.op = "search"
    /\ hnsw.entry_point_ \in hnsw_hist.removed
    /\ hnsw_hist.results # <<>>
    /\ Cardinality(DOMAIN hnsw.nodes_) = Cardinality(HnswKeys)

\* ------------------------------------------------------------------------
\* Claims on SpecTxn: when and in which order the log gets its records
\* ------------------------------------------------------------------------
\* the INSERT and DELETE records of transaction t in the log f, in log order
RECURSIVE RecordsOf(_, _)
RecordsOf(f, t) ==
    IF f = <<>> THEN <<>>
    ELSE (IF Head(f).transaction_id = t /\ Head(f).type \in {"INSERT", "DELETE"}
            THEN <<[type |-> Head(f).type, key |-> Head(f).key]>>
            ELSE <<>>)
         \o RecordsOf(Tail(f), t)

\* C28: the INSERT and DELETE records of a committed transaction are in the
\* log in the order in which the client made its write and remove calls.
C28_InTransactionOrder ==
    (last.op = "commit" /\ last.ok) => RecordsOf(file, last.txn_id) = last.ops

\* C29: only a commit makes the log grow: begin, read, write and remove of
\* an active transaction and rollback append nothing.  A step in which no
\* transaction begins or ends is a read, write or remove of a transaction that
\* stays active (or a call that fails).
C29_LogGrowsOnlyAtCommit ==
    [][ (\/ /\ next_txn_id' = next_txn_id
            /\ DOMAIN transactions' = DOMAIN transactions
         \/ last'.op \in {"begin", "rollback"})
        => (file' = file /\ current_offset' = current_offset) ]_vars

\* ------------------------------------------------------------------------
\* Claims on SpecTorn
\* ------------------------------------------------------------------------
\* the records of the file that are on disk in full
WholeRecords(f) == SelectSeq(f, LAMBDA b : Present(b) = b.size)

\* records are the whole records of the file f, all of them and in their order
ReturnsWhole(records, f) ==
    LET whole == WholeRecords(f) IN
      /\ Len(records) = Len(whole)
      /\ \A i \in 1..Len(whole) :
            /\ records[i].type = whole[i].type
            /\ records[i].transaction_id = whole[i].transaction_id
            /\ records[i].timestamp = whole[i].timestamp
            /\ records[i].key = whole[i].key
            /\ records[i].is_vector = whole[i].is_vector
            /\ whole[i].data = (IF whole[i].is_vector THEN records[i].vector_data
                                                      ELSE records[i].value)

ModeMismatch(records) ==
    \E i \in 1..Len(records) :
       records[i].type \in {"INSERT", "DELETE"} /\ ~records[i].is_vector

C31_ModeMismatchFatal ==
    ~(last.op = "recover" /\ ModeMismatch(read_records(file, DefaultRecord)))

\* ------------------------------------------------------------------------
\* C32. Dimension mismatch is rejected: a write of a vector whose length is not
\* the configured dimension returns failure and leaves the transaction
\* ACTIVE, and no vector of another length is ever in the log or in the index.
\* ------------------------------------------------------------------------
C32_DimensionMismatchRejected ==
    /\ (last.op = "write" /\ Len(last.vector) # Dim) =>
          (~last.ok /\ IsActive(World, last.txn_id))
    /\ \A i \in 1..Len(file) : file[i].type = "INSERT" => Len(file[i].data) = Dim
    /\ \A k \in DOMAIN nodes_ : Len(nodes_[k].vector) = Dim

\* ------------------------------------------------------------------------
\* C33. search_layer keeps the closest: on every layer of the entry point, for
\* every query and ef, search_layer returns at most ef nodes, and no live node
\* it visited and left out of the result is strictly closer to the query than
\* a node it returns.
\* ------------------------------------------------------------------------
C33_SearchLayerKeepsClosest ==
    (hnsw.entry_point_ # "") =>
       \A query \in QueryVectors, ef \in EfSearches, ord \in Orders,
          lc \in 0..hnsw.nodes_[hnsw.entry_point_].max_level :
          LET s == search_layer_loop(hnsw, query, hnsw.entry_point_, ef, lc, ord)
              returned == search_layer(hnsw, query, hnsw.entry_point_, ef, lc, ord)
              left_out == {key \in s.visited \ hnsw.deleted_keys_ :
                             \A i \in 1..Len(returned) : returned[i] # key}
          IN /\ Len(returned) <= ef
             /\ \A key \in left_out, i \in 1..Len(returned) :
                   compute_distance(query, hnsw.nodes_[key].vector)
                      >= compute_distance(query, hnsw.nodes_[returned[i]].vector)

\* ------------------------------------------------------------------------
\* C36. Appends still work after a read reaches end of file: an append made
\* after read_all or after a read that hit the end of the log (either leaves
\* the stream failed) writes its record at the end of the file.
\* ------------------------------------------------------------------------
C36_AppendAfterEndOfFile ==
    [][ (fail /\ log_hist'.op = "append" /\ log_hist' # log_hist) =>
           file' = Append(file, serialize_record(log_hist'.record)) ]_vars

\* ------------------------------------------------------------------------
\* C34. Operations on a finished transaction fail without effect: a commit,
\* rollback, read, write or remove called with a transaction id that is not
\* ACTIVE (never begun, committed or rolled back) returns failure and changes
\* neither the store, the log, the transaction table nor any lock.
\* ------------------------------------------------------------------------
\* the call that completed last was made with transaction id t
CalledWith(l, t) ==
    /\ l.op \in {"commit", "rollback", "error", "wait", "read", "write", "remove"}
    /\ l.txn_id = t

\* the call that completed last returned failure
ReturnedFailure(l) ==
    CASE l.op = "error" -> TRUE
      [] l.op = "wait"  -> FALSE
      [] l.op = "read"  -> ~l.result.found
      [] OTHER          -> ~l.ok

C34_FinishedTransactionCallsFail ==
    [][ (/\ last' # last
         /\ \E t \in CallerTxnIds : CalledWith(last', t) /\ ~IsActive(World, t)) =>
           /\ ReturnedFailure(last')
           /\ UNCHANGED <<index_, nodes_, deleted_keys_, file, fail, current_offset,
                          transactions, next_txn_id, locks, txn_locks>> ]_vars

\* a commit on a committed transaction, or a write on a rolled-back one, returned
C34_Witness ==
    /\ begun > 0
    /\ ~IsActive(World, 1)
    /\ \/ last.op = "commit" /\ ~last.ok /\ last.txn_id = 1
       \/ last.op = "error" /\ last.call = "write" /\ last.txn_id = 1

\* ------------------------------------------------------------------------
\* C35. Last committed write wins in vector mode: once a commit has returned
\* OK, every key the transaction put or removed answers as a key-to-vector map
\* would after the transaction's operations on it, in their order: the vector
\* put if the last operation on the key was a put (whatever the key held or
\* had removed before), NOT_FOUND if it was a remove.
\* ------------------------------------------------------------------------
\* the positions of the operations on key in the operations of a transaction
OpsOn(ops, key) == {i \in 1..Len(ops) : ops[i].key = key}

LastOf(S) == CHOOSE i \in S : \A j \in S : j <= i

\* what a key-to-vector map answers for key after the operations
ReferenceAnswer(ops, write_set, key) ==
    IF ops[LastOf(OpsOn(ops, key))].type = "DELETE" THEN NotFound
    ELSE Found(write_set[FirstOf(WritesOf(write_set, key))].vector)

C35_LastCommittedWriteWins ==
    (last.op = "commit" /\ last.ok) =>
       \A key \in StoreKeys :
          OpsOn(last.ops, key) # {} =>
             KVStore_get_vector(World, key)
                = ReferenceAnswer(last.ops, last.write_set, key)

\* ------------------------------------------------------------------------
\* C37. Disconnect aborts the open transaction: when a connection ends with
\* its explicit transaction open, the transaction is rolled back: the step
\* changes nothing in the store or the log (its buffered writes are dropped
\* with it), afterwards the transaction is gone from the table, holds no key
\* and has no request queued, no request that the keys it held can now grant
\* is left waiting, and every thread whose request is granted eventually
\* returns from its call.
\* ------------------------------------------------------------------------
\* the connection that ended last had transaction last.txn_id open
DisconnectedOpen == last.op = "disconnect" /\ last.open

\* a request waits in the queue although the queue could grant it
GrantableWaiter(queue) ==
    \E i \in 1..Len(queue.requests) :
       ~queue.requests[i].granted /\ can_grant_lock(queue, queue.requests[i].mode)

DisconnectReleased ==
    DisconnectedOpen =>
       /\ last.txn_id \notin DOMAIN transactions
       /\ KeysOf(txn_locks, last.txn_id) = {}
       /\ \A key \in StoreKeys :
             ~HoldsIn(locks, last.txn_id, key) /\ ~PendingIn(locks, last.txn_id, key)
       /\ \A key \in last.keys : ~GrantableWaiter(locks[key])

Granted(c) ==
    /\ blocked[c] # NoCall
    /\ wait_over(locks, blocked[c].txn_id, blocked[c].key)

C37_DisconnectAborts ==
    /\ []DisconnectReleased
    /\ [][ (last'.op = "disconnect" /\ last' # last) =>
              UNCHANGED <<index_, nodes_, deleted_keys_, file, fail, current_offset>> ]_vars
    /\ \A c \in Clients : Granted(c) ~> (blocked[c] = NoCall)

\* a connection ended with buffered writes in its open transaction, and a
\* thread that waited for a key of that transaction is granted it
C37_Witness ==
    /\ DisconnectedOpen
    /\ last.keys # {}
    /\ \E c \in Clients : Granted(c) /\ blocked[c].key \in last.keys

\* ------------------------------------------------------------------------
\* C39. Acceptor ballots stay ordered: after any sequence of PREPARE and
\* COMMIT messages, the ballot stored with the value of every key is not
\* greater than highest_ballot_, and the ballot stored for a key never
\* decreases from one accepted commit to the next.
\* ------------------------------------------------------------------------
StoredBelowHighest ==
    \A key \in DOMAIN values_ : ~BallotLess(highest_ballot_, values_[key].ballot)

C39_AcceptorBallotsOrdered ==
    /\ []StoredBelowHighest
    /\ [][ \A key \in DOMAIN values_ \cap DOMAIN values_' :
              ~BallotLess(values_'[key].ballot, values_[key].ballot) ]_vars

\* ------------------------------------------------------------------------
\* C38. Search sees transactions atomically: a search that runs while a
\* transaction T is in commit_transaction and has not yet appended its
\* COMMIT record returns none of the keys T inserts (keys that were absent
\* when T wrote them); so it never returns some of them with others missing.
\* ------------------------------------------------------------------------
\* the keys the transaction of thread c inserts: written, and absent at the write
InsertedBy(c) ==
    LET t == conn[c].current_txn_id_
        write_set == transactions[t].write_set
    IN {write_set[i].key : i \in 1..Len(write_set)}
          \cap {p[1] : p \in {q \in ghost[t].prior : q[2] = NotFound}}

C38_SearchSeesTransactionsAtomically ==
    (last.op = "search") =>
       \A c \in Clients :
          (tm_threads[c].pc = "commit_apply") => (last.results \cap InsertedBy(c) = {})

\* ------------------------------------------------------------------------
\* C40. The transaction table is never accessed unsynchronized: a thread that
\* is inside a lookup, an insertion or an erase on transactions_ holds
\* mutex_, and no lookup of one thread is in progress while another thread
\* inserts into the table or erases from it.
\* ------------------------------------------------------------------------
C40_TableAccessSynchronized ==
    /\ \A c \in Clients :
          (Looking(tm_threads[c]) \/ Mutating(tm_threads[c])) => tm_mutex = c
    /\ \A c \in Clients : \A d \in Clients \ {c} :
          ~(Mutating(tm_threads[c]) /\ Looking(tm_threads[d]))

====
